---- MODULE Spec2Model ----
(***************************************************************************)
(* A model of the ray tracer: tuples, 4x4 matrices, shapes, rays,          *)
(* intersections, the shading context and the recursive world integrator.  *)
(*                                                                         *)
(* An f32 is modelled as a fixed-point number: the integer n stands for    *)
(* n / Unit, and every product, quotient and square root is rounded to the *)
(* nearest grid value, as a float operation is rounded to the nearest      *)
(* float.  Division by zero yields the IEEE values PosInf, NegInf and NaN. *)
(***************************************************************************)
EXTENDS Integers, Sequences, FiniteSets, TLC

VARIABLES
    world,   \* World { objects, lights }
    ray,     \* the Ray of the operation under way
    vec,     \* Vec<Intersection> handed to Intersections::new
    xs,      \* the Intersections built from vec (NoValue before construction)
    hit,     \* the Option<Intersection> returned by Intersections::hit
    comps,   \* the Computations returned by Ray::prepare_computations
    walk,    \* history of the call under way: the object taken, the walk over the
             \* containers (not program state)
    pc,      \* position of the caller
    stack,   \* the call stack of the World methods under way, innermost last
    calls,   \* every call made so far, with its result once returned (not program state)
    ret,     \* the value the last returning call handed to its caller
    cam,     \* the Camera handed to World::render
    image    \* the Canvas World::render writes

vars == <<world, ray, vec, xs, hit, comps, walk, pc, stack, calls, ret, cam, image>>

-----------------------------------------------------------------------------
(* f32 *)

Unit == 10
PosInf == 1000000
NegInf == -1000000
NaN == 2000000

NoValue == "NoValue"
None == [some |-> FALSE]
Some(v) == [some |-> TRUE, value |-> v]

Abs(a) == IF a < 0 THEN -a ELSE a

\* let v = e; F(v): e is computed once and F works on its value
Let(e, F(_)) == CHOOSE r \in {F(v) : v \in {e}} : TRUE

\* n / d for d > 0, rounded to the nearest integer, ties away from zero
Rnd(n, d) == IF n >= 0 THEN (2 * n + d) \div (2 * d) ELSE -((2 * (-n) + d) \div (2 * d))

FMul(a, b) == Rnd(a * b, Unit)

FDiv(a, b) ==
    IF b = 0 THEN (IF a > 0 THEN PosInf ELSE IF a < 0 THEN NegInf ELSE NaN)
    ELSE IF b > 0 THEN Rnd(a * Unit, b)
    ELSE Rnd(-(a * Unit), -b)

\* sqrt(a) for a >= 0
FSqrt(a) ==
    IF a = 0 THEN 0
    ELSE CHOOSE r \in 1..(a * Unit) :
             /\ (2 * r - 1) * (2 * r - 1) <= 4 * a * Unit
             /\ 4 * a * Unit < (2 * r + 1) * (2 * r + 1)

\* the comparisons of f32: every comparison with a NaN is false
FLt(a, b) == a # NaN /\ b # NaN /\ a < b
FGt(a, b) == a # NaN /\ b # NaN /\ a > b
FEq(a, b) == a # NaN /\ b # NaN /\ a = b

\* f32::total_cmp(a, b) is Less or Equal (a positive NaN sorts last)
TotalLe(a, b) == a <= b

DEFAULT_EPSILON == 1

-----------------------------------------------------------------------------
(* tuple.rs *)

Tuple(x, y, z, w) == [x |-> x, y |-> y, z |-> z, w |-> w]
point(x, y, z) == Tuple(x, y, z, Unit)
vector(x, y, z) == Tuple(x, y, z, 0)

TAdd(a, b) == Tuple(a.x + b.x, a.y + b.y, a.z + b.z, a.w + b.w)
TSub(a, b) == Tuple(a.x - b.x, a.y - b.y, a.z - b.z, a.w - b.w)
TNeg(a) == Tuple(0 - a.x, 0 - a.y, 0 - a.z, 0 - a.w)
TMul(a, s) == Tuple(FMul(a.x, s), FMul(a.y, s), FMul(a.z, s), FMul(a.w, s))

\* Tuple / f32 when w is carried over as it is
TDiv_keep_w(a, rhs) ==
    IF FEq(rhs, 0) THEN None
    ELSE Some(Tuple(FDiv(a.x, rhs), FDiv(a.y, rhs), FDiv(a.z, rhs), a.w))

\* impl ops::Div<f32> for Tuple: Some(the quotient), or None when it panics
\* ("Cannot divide by zero-valued number!")
TDiv(a, rhs) ==
    IF FEq(rhs, 0) THEN None
    ELSE Some(Tuple(FDiv(a.x, rhs), FDiv(a.y, rhs), FDiv(a.z, rhs), FDiv(a.w, rhs)))

dot(a, b) == FMul(a.x, b.x) + FMul(a.y, b.y) + FMul(a.z, b.z) + FMul(a.w, b.w)

magnitude(a) == FSqrt(FMul(a.x, a.x) + FMul(a.y, a.y) + FMul(a.z, a.z) + FMul(a.w, a.w))

normalize(a) ==
    Let(magnitude(a), LAMBDA mag :
        Tuple(FDiv(a.x, mag), FDiv(a.y, mag), FDiv(a.z, mag), FDiv(a.w, mag)))

reflect(v, normal) ==
    Let(dot(v, normal), LAMBDA d :
    Let(TMul(TMul(normal, 2 * Unit), d), LAMBDA scaled : TSub(v, scaled)))

-----------------------------------------------------------------------------
(* matrix.rs: a matrix is its values in row-major order *)

value_at2(M, m, n) == M[m * 2 + n + 1]
value_at3(M, m, n) == M[m * 3 + n + 1]
value_at(M, m, n) == M[m * 4 + n + 1]

\* value_at(m, n) of Matrix2x2, Matrix3x3 and Matrix4x4 (N = 2, 3, 4) with its
\* checks: Some(the element), or None when it panics ("m out of bounds", "n out of
\* bounds"); m and n are usize
Matrix_value_at(N, M, m, n) ==
    IF m >= N THEN None
    ELSE IF n >= N THEN None
    ELSE Some(M[m * N + n + 1])

\* write_value when the index is n * N + m
Matrix_write_value_column_major(N, M, m, n, value) ==
    IF m >= N THEN None
    ELSE IF n >= N THEN None
    ELSE Some([M EXCEPT ![n * N + m + 1] = value])

\* write_value(m, n, value) of Matrix2x2, Matrix3x3 and Matrix4x4: Some(the matrix
\* after the write), or None when it panics
Matrix_write_value(N, M, m, n, value) ==
    IF m >= N THEN None
    ELSE IF n >= N THEN None
    ELSE Some([M EXCEPT ![m * N + n + 1] = value])

Others(k, N) == SelectSeq([i \in 1..N |-> i - 1], LAMBDA r : r # k)

determinant2(M) ==
    FMul(value_at2(M, 0, 0), value_at2(M, 1, 1)) - FMul(value_at2(M, 0, 1), value_at2(M, 1, 0))

submatrix3(M, m, n) ==
    LET rows == Others(m, 3)
        cols == Others(n, 3)
    IN  [i \in 1..4 |-> value_at3(M, rows[((i - 1) \div 2) + 1], cols[((i - 1) % 2) + 1])]

minor3(M, m, n) == determinant2(submatrix3(M, m, n))

cofactor3(M, m, n) == IF (m + n) % 2 = 0 THEN minor3(M, m, n) ELSE -minor3(M, m, n)

determinant3(M) ==
    FMul(value_at3(M, 0, 0), cofactor3(M, 0, 0))
    + FMul(value_at3(M, 1, 0), cofactor3(M, 1, 0))
    + FMul(value_at3(M, 2, 0), cofactor3(M, 2, 0))

submatrix(M, m, n) ==
    LET rows == Others(m, 4)
        cols == Others(n, 4)
    IN  [i \in 1..9 |-> value_at(M, rows[((i - 1) \div 3) + 1], cols[((i - 1) % 3) + 1])]

minor(M, m, n) == determinant3(submatrix(M, m, n))

cofactor(M, m, n) == IF (m + n) % 2 = 0 THEN minor(M, m, n) ELSE -minor(M, m, n)

\* determinant() when the loop runs over the columns of row 0
determinant_first_row(M) ==
    FMul(value_at(M, 0, 0), cofactor(M, 0, 0))
    + FMul(value_at(M, 0, 1), cofactor(M, 0, 1))
    + FMul(value_at(M, 0, 2), cofactor(M, 0, 2))
    + FMul(value_at(M, 0, 3), cofactor(M, 0, 3))

determinant(M) ==
    FMul(value_at(M, 0, 0), cofactor(M, 0, 0))
    + FMul(value_at(M, 1, 0), cofactor(M, 1, 0))
    + FMul(value_at(M, 2, 0), cofactor(M, 2, 0))
    + FMul(value_at(M, 3, 0), cofactor(M, 3, 0))

invertible(M) == determinant(M) # 0

\* inverse() when cofactor(m, n) / det is written at (m, n)
inverse_no_transpose(M) ==
    Let(determinant(M), LAMBDA det :
        [i \in 1..16 |-> FDiv(cofactor(M, (i - 1) \div 4, (i - 1) % 4), det)] \o <<>>)

\* the matrix inverse() returns when it does not panic: element (n, m) is cofactor(m, n) / det
inverse(M) ==
    Let(determinant(M), LAMBDA det :
        [i \in 1..16 |-> FDiv(cofactor(M, (i - 1) % 4, (i - 1) \div 4), det)] \o <<>>)

\* Matrix4x4::inverse of matrix.rs with its check: None when it panics ("Matrix is
\* not invertible")
Matrix4x4_inverse(M) ==
    IF FEq(determinant(M), 0) THEN None ELSE Some(inverse(M))

\* the tolerance of almost_zero, on the grid: the least value that leaves a
\* determinant other than 0 below it
F32_TOLERANCE == 2

\* f32::almost_zero
almost_zero(a) == a # NaN /\ Abs(a) < F32_TOLERANCE

\* matrix::Matrix4x4::inverse of lib.rs: it panics when det.almost_zero()
lib_inverse(M) ==
    IF almost_zero(determinant(M)) THEN None ELSE Some(inverse(M))

transpose(M) == [i \in 1..16 |-> value_at(M, (i - 1) % 4, (i - 1) \div 4)] \o <<>>

\* impl ops::Mul<Matrix4x4> for Matrix4x4: element (m, n) is the sum over k of
\* self.value_at(m, k) * rhs.value_at(k, n)
MulMatrix(A, B) ==
    [i \in 1..16 |->
        FMul(value_at(A, (i - 1) \div 4, 0), value_at(B, 0, (i - 1) % 4))
        + FMul(value_at(A, (i - 1) \div 4, 1), value_at(B, 1, (i - 1) % 4))
        + FMul(value_at(A, (i - 1) \div 4, 2), value_at(B, 2, (i - 1) % 4))
        + FMul(value_at(A, (i - 1) \div 4, 3), value_at(B, 3, (i - 1) % 4))] \o <<>>

MulTuple(M, t) ==
    LET row(r) == FMul(value_at(M, r, 0), t.x) + FMul(value_at(M, r, 1), t.y)
                  + FMul(value_at(M, r, 2), t.z) + FMul(value_at(M, r, 3), t.w)
    IN  Tuple(row(0), row(1), row(2), row(3))

identity == <<Unit, 0, 0, 0,   0, Unit, 0, 0,   0, 0, Unit, 0,   0, 0, 0, Unit>>

(* transformation.rs *)

translation(x, y, z) == <<Unit, 0, 0, x,   0, Unit, 0, y,   0, 0, Unit, z,   0, 0, 0, Unit>>

scale(x, y, z) == <<x, 0, 0, 0,   0, y, 0, 0,   0, 0, z, 0,   0, 0, 0, Unit>>

\* rot_x(r), given the cosine and the sine of r
rot_x(c, s) == <<Unit, 0, 0, 0,   0, c, -s, 0,   0, s, c, 0,   0, 0, 0, Unit>>

-----------------------------------------------------------------------------
(* colour.rs *)

Colour(r, g, b) == [red |-> r, green |-> g, blue |-> b]
WHITE == Colour(Unit, Unit, Unit)
BLACK == Colour(0, 0, 0)

CAdd(a, b) == Colour(a.red + b.red, a.green + b.green, a.blue + b.blue)
CMul(a, b) == Colour(FMul(a.red, b.red), FMul(a.green, b.green), FMul(a.blue, b.blue))
CScale(a, s) == Colour(FMul(a.red, s), FMul(a.green, s), FMul(a.blue, s))

-----------------------------------------------------------------------------
(* shapes.rs *)

\* Material::new(), with the given reflective, transparency and refractive_index
Material(reflective, transparency, refractive_index) ==
    [colour |-> WHITE, ambient |-> 1, diffuse |-> 9, specular |-> 9, shininess |-> 200 * Unit,
     pattern |-> None, reflective |-> reflective, transparency |-> transparency,
     refractive_index |-> refractive_index]

Object(shape, transform, material) ==
    [transform |-> transform, material |-> material, shape |-> shape]

\* the derived PartialEq of Object: field by field
ObjectEq(a, b) == a = b

normal_at(object, world_point) ==
    Let(inverse(object.transform), LAMBDA inv :
    Let(MulTuple(inv, world_point), LAMBDA object_point :
    Let(CASE object.shape = "Sphere" -> TSub(object_point, point(0, 0, 0))
          [] object.shape = "Test" -> point(0, 0, 0)
          [] object.shape = "Plane" -> point(0, Unit, 0), LAMBDA object_normal :
    Let(MulTuple(transpose(inv), object_normal), LAMBDA wn :
        normalize(Tuple(wn.x, wn.y, wn.z, 0))))))

-----------------------------------------------------------------------------
(* ray.rs *)

Ray(origin, direction) == [origin |-> origin, direction |-> direction]

position(r, t) == Let(TMul(r.direction, t), LAMBDA step : TAdd(r.origin, step))

ray_transform(r, m) == Let(m, LAMBDA mv : Ray(MulTuple(mv, r.origin), MulTuple(mv, r.direction)))

\* Intersection::new(t, object); src is the place of the object the copy was
\* taken from (the index in world.objects), which the program does not store
Intersection(t, object, src) == [t |-> t, object |-> object, src |-> src]

\* impl PartialEq for Intersection
IntersectionEq(a, b) == FEq(a.t, b.t)

\* impl Ord for Intersection: cmp(a, b) is not Greater
IntersectionLe(a, b) == TotalLe(a.t, b.t)

\* impl Ord for Intersection: self.t.total_cmp(&other.t)
cmp(a, b) == IF a.t < b.t THEN "Less" ELSE IF a.t > b.t THEN "Greater" ELSE "Equal"

\* the coefficients of the quadratic Ray::intersect solves for a sphere
Quadratic(transformed_ray) ==
    Let(TSub(transformed_ray.origin, point(0, 0, 0)), LAMBDA origin_to_center :
        [a |-> dot(transformed_ray.direction, transformed_ray.direction),
         b |-> FMul(2 * Unit, dot(transformed_ray.direction, origin_to_center)),
         c |-> dot(origin_to_center, origin_to_center) - Unit])

\* a sphere arm that lists the larger root first
SphereIntersectLargerFirst(transformed_ray, object, src) ==
    Let(Quadratic(transformed_ray), LAMBDA q :
    Let(FMul(q.b, q.b) - FMul(FMul(4 * Unit, q.a), q.c), LAMBDA discriminant :
        IF discriminant < 0 THEN <<>>
        ELSE <<Intersection(FDiv((-q.b) + FSqrt(discriminant), FMul(2 * Unit, q.a)), object, src),
               Intersection(FDiv((-q.b) - FSqrt(discriminant), FMul(2 * Unit, q.a)), object, src)>>))

\* Ray::intersect, the arm Shape::Sphere
SphereIntersect(transformed_ray, object, src) ==
    Let(Quadratic(transformed_ray), LAMBDA q :
    Let(FMul(q.b, q.b) - FMul(FMul(4 * Unit, q.a), q.c), LAMBDA discriminant :
        IF discriminant < 0 THEN <<>>
        ELSE <<Intersection(FDiv((-q.b) - FSqrt(discriminant), FMul(2 * Unit, q.a)), object, src),
               Intersection(FDiv((-q.b) + FSqrt(discriminant), FMul(2 * Unit, q.a)), object, src)>>))

\* Ray::intersect, the arm Shape::Plane: the test reads the direction of the ray
\* itself, the division those of the transformed ray
PlaneIntersect(r, transformed_ray, object, src) ==
    IF Abs(r.direction.y) < DEFAULT_EPSILON THEN <<>>
    ELSE <<Intersection(FDiv(-transformed_ray.origin.y, transformed_ray.direction.y), object, src)>>

\* Ray::intersect on an object with an invertible transform
intersect(r, object, src) ==
    Let(ray_transform(r, inverse(object.transform)), LAMBDA transformed_ray :
        CASE object.shape = "Sphere" -> SphereIntersect(transformed_ray, object, src)
          [] object.shape = "Test" -> <<>>
          [] object.shape = "Plane" -> PlaneIntersect(r, transformed_ray, object, src))

\* a sort that compares the new element with the head of the list only
InsertSortedHeadOnly(s, x) ==
    IF s = <<>> THEN <<x>>
    ELSE IF IntersectionLe(Head(s), x) THEN <<Head(s), x>> \o Tail(s)
    ELSE <<x>> \o s

\* a sort that puts the new element before the elements equal to it
RECURSIVE InsertSortedBeforeEqual(_, _)
InsertSortedBeforeEqual(s, x) ==
    IF s = <<>> THEN <<x>>
    ELSE IF IntersectionLe(x, Head(s)) THEN <<x>> \o s
    ELSE Let(Tail(s), LAMBDA rest : <<Head(s)>> \o InsertSortedBeforeEqual(rest, x))

\* slice::sort with the Ord of Intersection: the stable sort
RECURSIVE InsertSorted(_, _)
InsertSorted(s, x) ==
    IF s = <<>> THEN <<x>>
    ELSE IF IntersectionLe(Head(s), x)
         THEN Let(Tail(s), LAMBDA rest : <<Head(s)>> \o InsertSorted(rest, x))
    ELSE <<x>> \o s

RECURSIVE sort(_)
sort(s) ==
    IF s = <<>> THEN <<>>
    ELSE Let(sort(SubSeq(s, 1, Len(s) - 1)), LAMBDA sorted : InsertSorted(sorted, s[Len(s)]))

\* a constructor that forgets to sort
Intersections_new_unsorted(inters) == [inters |-> inters]

Intersections_new(inters) == [inters |-> sort(inters)]

\* a scan that takes t >= 0 for a hit
RECURSIVE HitIndexNonNegative(_, _)
HitIndexNonNegative(inters, i) ==
    IF i > Len(inters) THEN 0
    ELSE IF inters[i].t >= 0 /\ inters[i].t # NaN THEN i
    ELSE HitIndexNonNegative(inters, i + 1)

\* the index of the intersection Intersections::hit returns, 0 for none
RECURSIVE HitIndex(_, _)
HitIndex(inters, i) ==
    IF i > Len(inters) THEN 0
    ELSE IF FGt(inters[i].t, 0) THEN i
    ELSE HitIndex(inters, i + 1)

Intersections_hit(x) ==
    LET i == HitIndex(x.inters, 1)
    IN  IF i = 0 THEN None ELSE Some(x.inters[i])

\* containers.iter().position(|value| *value == object): 0 for None
RECURSIVE ContainerPosition(_, _, _)
ContainerPosition(containers, object, i) ==
    IF i > Len(containers) THEN 0
    ELSE IF ObjectEq(containers[i].object, object) THEN i
    ELSE ContainerPosition(containers, object, i + 1)

RemoveAt(s, i) == SubSeq(s, 1, i - 1) \o SubSeq(s, i + 1, Len(s))

\* one pass of the body of the loop over the containers: remove the object if present, else push it
Toggle(containers, x) ==
    LET index == ContainerPosition(containers, x.object, 1)
    IN  IF index # 0 THEN RemoveAt(containers, index)
        ELSE Append(containers, [object |-> x.object, src |-> x.src])

LastIndex(containers) ==
    IF containers = <<>> THEN Unit ELSE containers[Len(containers)].object.material.refractive_index

\* the loop of prepare_computations from position i on; removed collects, for every
\* container entry the loop removes, who removed it and who had pushed it
RECURSIVE ContainerWalk(_, _, _, _, _)
ContainerWalk(inters, inter, i, containers, removed) ==
    IF i > Len(inters) THEN [n1 |-> Unit, n2 |-> Unit, removed |-> removed, stop |-> 0]
    ELSE Let(inters[i], LAMBDA x :
         Let(ContainerPosition(containers, x.object, 1), LAMBDA index :
         Let(Toggle(containers, x), LAMBDA after :
         Let(IF index # 0
             THEN removed \cup {[by |-> x.src, pushed |-> containers[index].src]}
             ELSE removed, LAMBDA rem :
             IF IntersectionEq(x, inter)
             THEN [n1 |-> LastIndex(containers), n2 |-> LastIndex(after), removed |-> rem, stop |-> i]
             ELSE ContainerWalk(inters, inter, i + 1, after, rem)))))

\* prepare_computations when the normal is kept as normal_at returns it
prepare_computations_no_flip(r, inter, inters) ==
    Let(position(r, inter.t), LAMBDA pt :
    Let(TNeg(r.direction), LAMBDA eyev :
    Let(normal_at(inter.object, pt), LAMBDA n :
    Let(dot(n, eyev) < 0, LAMBDA inside :
    Let(TMul(n, DEFAULT_EPSILON), LAMBDA offset :
    Let(ContainerWalk(inters.inters, inter, 1, <<>>, {}), LAMBDA w :
        [t |-> inter.t, object |-> inter.object, point |-> pt, normalv |-> n, eyev |-> eyev,
         inside |-> inside,
         over_point |-> TAdd(pt, offset),
         under_point |-> TSub(pt, offset),
         reflectv |-> reflect(r.direction, n),
         n1 |-> w.n1, n2 |-> w.n2]))))))

prepare_computations(r, inter, inters) ==
    Let(position(r, inter.t), LAMBDA pt :
    Let(TNeg(r.direction), LAMBDA eyev :
    Let(normal_at(inter.object, pt), LAMBDA n :
    Let(dot(n, eyev) < 0, LAMBDA inside :
    Let(IF inside THEN TSub(vector(0, 0, 0), n) ELSE n, LAMBDA normalv :
    Let(TMul(normalv, DEFAULT_EPSILON), LAMBDA offset :
    Let(ContainerWalk(inters.inters, inter, 1, <<>>, {}), LAMBDA w :
        [t |-> inter.t, object |-> inter.object, point |-> pt, normalv |-> normalv, eyev |-> eyev,
         inside |-> inside,
         over_point |-> TAdd(pt, offset),
         under_point |-> TSub(pt, offset),
         reflectv |-> reflect(r.direction, normalv),
         n1 |-> w.n1, n2 |-> w.n2])))))))

-----------------------------------------------------------------------------
(* world.rs *)

\* the loop of World::intersect from object i on
RECURSIVE IntersectEach(_, _, _)
IntersectEach(objects, r, i) ==
    IF i > Len(objects) THEN <<>>
    ELSE Let(intersect(r, objects[i], i), LAMBDA x :
         Let(IntersectEach(objects, r, i + 1), LAMBDA rest : x \o rest))

World_intersect(w, r) == Let(IntersectEach(w.objects, r, 1), LAMBDA v : Intersections_new(v))

Light(pos, intensity) == [position |-> pos, intensity |-> intensity]

\* Object::pattern_at for a material without a pattern
pattern_at(object, world_point) == object.material.colour

\* f32::floor: the largest whole number not above a
floor(a) == IF a \in {NaN, PosInf, NegInf} THEN a ELSE (a \div Unit) * Unit

\* f32::rem_euclid for a finite rhs > 0: the remainder in [0, rhs), NaN for a
\* NaN or infinite a
rem_euclid(a, rhs) == IF a \in {NaN, PosInf, NegInf} THEN NaN ELSE a % rhs

Pattern_new_striped(c1, c2) ==
    [c1 |-> c1, c2 |-> c2, pattern_type |-> "Striped", transformation |-> identity]

\* Pattern::pattern_at when the remainder keeps the sign of floor(x), as the % operator
Pattern_pattern_at_rem(pattern, pt) ==
    IF FGt(IF floor(pt.x) \in {NaN, PosInf, NegInf} THEN NaN
           ELSE IF floor(pt.x) < 0 THEN -((-floor(pt.x)) % (2 * Unit))
           ELSE floor(pt.x) % (2 * Unit), 0)
    THEN pattern.c2
    ELSE pattern.c1

\* Pattern::pattern_at of a striped pattern
Pattern_pattern_at(pattern, pt) ==
    IF FGt(rem_euclid(floor(pt.x), 2 * Unit), 0) THEN pattern.c2 ELSE pattern.c1

\* f32::powf(x, y) for a whole y >= 0, by squaring; a result beyond the range is infinite
RECURSIVE FPow(_, _)
FPow(x, k) ==
    IF k = 0 THEN Unit
    ELSE Let(FPow(x, k \div 2), LAMBDA h :
         IF h > 1000 * Unit THEN PosInf
         ELSE IF k % 2 = 0 THEN FMul(h, h) ELSE FMul(x, FMul(h, h)))

\* lighting when a point in shadow gets no light at all
lighting_dark_in_shadow(object, light, pt, eyev, normalv, in_shadow) ==
    Let(CMul(pattern_at(object, pt), light.intensity), LAMBDA effective_colour :
    Let(CScale(effective_colour, object.material.ambient), LAMBDA ambient :
    Let(normalize(TSub(light.position, pt)), LAMBDA lightv :
    Let(dot(lightv, normalv), LAMBDA light_dot_normal :
        IF in_shadow THEN BLACK
        ELSE IF FLt(light_dot_normal, 0) THEN CAdd(CAdd(ambient, BLACK), BLACK)
        ELSE CAdd(ambient, CScale(CScale(effective_colour, object.material.diffuse),
                                  light_dot_normal))))))

lighting(object, light, pt, eyev, normalv, in_shadow) ==
    Let(CMul(pattern_at(object, pt), light.intensity), LAMBDA effective_colour :
    Let(CScale(effective_colour, object.material.ambient), LAMBDA ambient :
    Let(normalize(TSub(light.position, pt)), LAMBDA lightv :
    Let(dot(lightv, normalv), LAMBDA light_dot_normal :
        IF in_shadow THEN CAdd(CAdd(ambient, BLACK), BLACK)
        ELSE IF FLt(light_dot_normal, 0) THEN CAdd(CAdd(ambient, BLACK), BLACK)
        ELSE Let(CScale(CScale(effective_colour, object.material.diffuse), light_dot_normal),
                 LAMBDA diffuse :
             Let(dot(reflect(TNeg(lightv), normalv), eyev), LAMBDA reflect_dot_eye :
                 IF FLt(reflect_dot_eye, 0) \/ FEq(reflect_dot_eye, 0)
                 THEN CAdd(CAdd(ambient, diffuse), BLACK)
                 ELSE Let(FPow(reflect_dot_eye, object.material.shininess \div Unit),
                          LAMBDA factor :
                          CAdd(CAdd(ambient, diffuse),
                               CScale(CScale(light.intensity, object.material.specular),
                                      factor)))))))))

\* World::is_shadowed when any hit at all, however far behind the light, shadows
is_shadowed_any_hit(w, pt) ==
    Let(TSub(w.lights[1].position, pt), LAMBDA v :
    Let(Intersections_hit(World_intersect(w, Ray(pt, normalize(v)))), LAMBDA h : h.some))

\* World::is_shadowed when it reads the last light of the list
is_shadowed_last_light(w, pt) ==
    Let(TSub(w.lights[Len(w.lights)].position, pt), LAMBDA v :
    Let(magnitude(v), LAMBDA distance :
    Let(Intersections_hit(World_intersect(w, Ray(pt, normalize(v)))), LAMBDA h :
        IF h.some THEN FLt(h.value.t, distance) ELSE FALSE)))

\* World::is_shadowed on a world with a light
is_shadowed(w, pt) ==
    Let(TSub(w.lights[1].position, pt), LAMBDA v :
    Let(magnitude(v), LAMBDA distance :
    Let(Intersections_hit(World_intersect(w, Ray(pt, normalize(v)))), LAMBDA h :
        IF h.some THEN FLt(h.value.t, distance) ELSE FALSE)))

\* what World::reflected_colour does with the depth it is given when it recurses
\* without taking one off
reflected_colour_same_depth(c, depth) ==
    IF depth = 0 THEN [cast |-> FALSE, colour |-> BLACK]
    ELSE IF c.object.material.reflective = 0 THEN [cast |-> FALSE, colour |-> BLACK]
    ELSE [cast |-> TRUE, ray |-> Ray(c.over_point, c.reflectv), depth |-> depth,
          factor |-> c.object.material.reflective]

\* a reflected_colour that casts its ray from every surface
reflected_colour_always(c, depth) ==
    IF depth = 0 THEN [cast |-> FALSE, colour |-> BLACK]
    ELSE [cast |-> TRUE, ray |-> Ray(c.over_point, c.reflectv), depth |-> depth - 1,
          factor |-> c.object.material.reflective]

\* World::reflected_colour up to its call of colour_at: black, or the ray to cast,
\* the depth to cast it with and the factor for the colour that comes back
reflected_colour(c, depth) ==
    IF depth = 0 THEN [cast |-> FALSE, colour |-> BLACK]
    ELSE IF c.object.material.reflective = 0 THEN [cast |-> FALSE, colour |-> BLACK]
    ELSE [cast |-> TRUE, ray |-> Ray(c.over_point, c.reflectv), depth |-> depth - 1,
          factor |-> c.object.material.reflective]

\* sin2_t of World::refracted_colour
Sin2T(c) ==
    Let(FDiv(c.n1, c.n2), LAMBDA n_ratio :
    Let(dot(c.eyev, c.normalv), LAMBDA cos_i :
        FMul(FMul(n_ratio, n_ratio), Unit - FMul(cos_i, cos_i))))

\* the ray World::refracted_colour casts
RefractedRay(c) ==
    Let(FDiv(c.n1, c.n2), LAMBDA n_ratio :
    Let(dot(c.eyev, c.normalv), LAMBDA cos_i :
    Let(FSqrt(Unit - Sin2T(c)), LAMBDA cos_t :
        Ray(c.under_point,
            TSub(TMul(c.normalv, FMul(n_ratio, cos_i) - cos_t), TMul(c.eyev, n_ratio))))))

\* a refracted_colour without the test for total internal reflection
refracted_colour_no_tir(c, depth) ==
    IF depth = 0 THEN [cast |-> FALSE, colour |-> BLACK]
    ELSE IF c.object.material.transparency = 0 THEN [cast |-> FALSE, colour |-> BLACK]
    ELSE [cast |-> TRUE,
          ray |-> IF FGt(Sin2T(c), Unit) THEN Ray(c.under_point, c.reflectv) ELSE RefractedRay(c),
          depth |-> depth - 1, factor |-> c.object.material.transparency]

\* a refracted_colour without the test of depth: at depth 0 it takes 1 off all the
\* same, which is no usize (written -1 here)
refracted_colour_unchecked(c, depth) ==
    IF c.object.material.transparency = 0 THEN [cast |-> FALSE, colour |-> BLACK]
    ELSE IF FGt(Sin2T(c), Unit) THEN [cast |-> FALSE, colour |-> BLACK]
    ELSE [cast |-> TRUE, ray |-> RefractedRay(c), depth |-> depth - 1,
          factor |-> c.object.material.transparency]

\* World::refracted_colour up to its call of colour_at
refracted_colour(c, depth) ==
    IF depth = 0 THEN [cast |-> FALSE, colour |-> BLACK]
    ELSE IF c.object.material.transparency = 0 THEN [cast |-> FALSE, colour |-> BLACK]
    ELSE IF FGt(Sin2T(c), Unit) THEN [cast |-> FALSE, colour |-> BLACK]
    ELSE [cast |-> TRUE, ray |-> RefractedRay(c), depth |-> depth - 1,
          factor |-> c.object.material.transparency]

\* World::colour_at and World::shade_hit as values: Some(colour), or None when the
\* call panics on self.lights[0]
RECURSIVE colour_at(_, _, _)

\* the rest of reflected_colour and refracted_colour: the colour the cast ray brings
\* back times the factor
Cast(w, r) ==
    IF ~r.cast THEN Some(r.colour)
    ELSE Let(colour_at(w, r.ray, r.depth), LAMBDA c :
             IF c.some THEN Some(CScale(c.value, r.factor)) ELSE None)

shade_hit(w, c, depth) ==
    IF w.lights = <<>> THEN None
    ELSE
    Let(is_shadowed(w, c.over_point), LAMBDA shadowed :
    Let(lighting(c.object, w.lights[1], c.point, c.eyev, c.normalv, shadowed),
        LAMBDA surface_colour :
    Let(Cast(w, reflected_colour(c, depth)), LAMBDA reflected :
        IF ~reflected.some THEN None
        ELSE
    Let(Cast(w, refracted_colour(c, depth)), LAMBDA refracted :
        IF ~refracted.some THEN None
        ELSE Some(CAdd(CAdd(surface_colour, reflected.value), refracted.value))))))

colour_at(w, r, depth) ==
    Let(World_intersect(w, r), LAMBDA inters :
    Let(Intersections_hit(inters), LAMBDA h :
        IF h.some THEN shade_hit(w, prepare_computations(r, h.value, inters), depth)
        ELSE Some(BLACK)))

-----------------------------------------------------------------------------
(* canvas.rs, and Camera and World::render of world.rs *)

\* Canvas::new: pixels is vec![colour; width * height]
Canvas_new(width, height, colour) ==
    [width |-> width, height |-> height, pixels |-> [i \in 1..(width * height) |-> colour]]

\* Canvas::write_pixel when loc leaves the width of a row out
write_pixel_no_stride(canvas, width, height, colour) ==
    IF width < canvas.width /\ height < canvas.height
    THEN Let(height + width, LAMBDA loc :
             IF loc < Len(canvas.pixels)
             THEN Some([canvas EXCEPT !.pixels[loc + 1] = colour])
             ELSE None)
    ELSE None

\* Canvas::write_pixel when loc counts columns of canvas.height elements
write_pixel_by_column(canvas, width, height, colour) ==
    IF width < canvas.width /\ height < canvas.height
    THEN Let(width * canvas.height + height, LAMBDA loc :
             IF loc < Len(canvas.pixels)
             THEN Some([canvas EXCEPT !.pixels[loc + 1] = colour])
             ELSE None)
    ELSE None

\* Canvas::write_pixel: Some(the canvas after the write), or None when it panics
\* ("Writing pixel outside of canvas", or the index loc is outside pixels)
write_pixel(canvas, width, height, colour) ==
    IF width < canvas.width /\ height < canvas.height
    THEN Let(height * canvas.width + width, LAMBDA loc :
             IF loc < Len(canvas.pixels)
             THEN Some([canvas EXCEPT !.pixels[loc + 1] = colour])
             ELSE None)
    ELSE None

\* Canvas::pixel_at: Some(the colour), or None when the index loc is outside pixels
pixel_at(canvas, width, height) ==
    Let(height * canvas.width + width, LAMBDA loc :
        IF loc < Len(canvas.pixels) THEN Some(canvas.pixels[loc + 1]) ELSE None)

\* Colour::normalize of one channel: 0 below 0.0, max above 1.0, else
\* (x * max).round() as usize, which is 0 for NaN
normalize_channel(x, max) ==
    IF FLt(x, 0) THEN 0
    ELSE IF FGt(x, Unit) THEN max
    ELSE IF x = NaN THEN 0
    ELSE Rnd(x * max, Unit)

\* Colour::normalize
Colour_normalize(colour, max) ==
    <<normalize_channel(colour.red, max), normalize_channel(colour.green, max),
      normalize_channel(colour.blue, max)>>

\* usize::to_string: the decimal digits, one character each
RECURSIVE to_string(_)
to_string(n) ==
    IF n < 10 THEN <<(<<"0", "1", "2", "3", "4", "5", "6", "7", "8", "9">>)[n + 1]>>
    ELSE to_string(n \div 10) \o to_string(n % 10)

MAX_LENGTH == 70

\* the start of Canvas::to_ppm: the header, column = 0 and an empty new_line
to_ppm_start(canvas) ==
    [k |-> 1, i |-> 0, column |-> 0,
     str |-> <<"P", "3", "\n">> \o to_string(canvas.width) \o <<" ">>
             \o to_string(canvas.height) \o <<"\n", "2", "5", "5", "\n">>,
     new_line |-> <<>>]

\* the body of the inner loop when the line is broken once it is longer than MAX_LENGTH - 1
to_ppm_sample_late_break(canvas, w) ==
    LET sample == to_string(Colour_normalize(canvas.pixels[w.k], 255)[w.i + 1])
        column == IF w.i = 2 THEN w.column + 1 ELSE w.column
        line == w.new_line \o sample
        ended == column >= canvas.width \/ Len(line) > MAX_LENGTH - 1
    IN  [k |-> IF w.i = 2 THEN w.k + 1 ELSE w.k,
         i |-> (w.i + 1) % 3,
         column |-> IF column >= canvas.width THEN 0 ELSE column,
         str |-> IF ended THEN w.str \o line \o <<"\n">> ELSE w.str,
         new_line |-> IF ended THEN <<>> ELSE line \o <<" ">>]

\* the body of the inner loop of Canvas::to_ppm for sample i of pixel k
to_ppm_sample(canvas, w) ==
    LET sample == to_string(Colour_normalize(canvas.pixels[w.k], 255)[w.i + 1])
        column == IF w.i = 2 THEN w.column + 1 ELSE w.column
        line == w.new_line \o sample
        ended == column >= canvas.width \/ Len(line) > MAX_LENGTH - 4
    IN  [k |-> IF w.i = 2 THEN w.k + 1 ELSE w.k,
         i |-> (w.i + 1) % 3,
         column |-> IF column >= canvas.width THEN 0 ELSE column,
         str |-> IF ended THEN w.str \o line \o <<"\n">> ELSE w.str,
         new_line |-> IF ended THEN <<>> ELSE line \o <<" ">>]

\* Camera::new for hsize, vsize > 0; half_view is (fow / 2.0).tan()
Camera_new(hsize, vsize, half_view) ==
    Let(FDiv(hsize * Unit, vsize * Unit), LAMBDA aspect :
    Let(IF FGt(aspect, Unit) \/ FEq(aspect, Unit)
        THEN <<half_view, FDiv(half_view, aspect)>>
        ELSE <<FMul(half_view, aspect), half_view>>, LAMBDA half :
        [hsize |-> hsize, vsize |-> vsize, transform |-> identity,
         pixel_size |-> FDiv(FMul(half[1], 2 * Unit), hsize * Unit),
         half_width |-> half[1], half_height |-> half[2]]))

\* Camera::ray_for_pixel
ray_for_pixel(c, px, py) ==
    Let(FMul(px * Unit + Unit \div 2, c.pixel_size), LAMBDA x_offset :
    Let(FMul(py * Unit + Unit \div 2, c.pixel_size), LAMBDA y_offset :
    Let(inverse(c.transform), LAMBDA inv :
    Let(MulTuple(inv, point(c.half_width - x_offset, c.half_height - y_offset, -Unit)),
        LAMBDA pixel :
    Let(MulTuple(inv, point(0, 0, 0)), LAMBDA origin :
        Ray(origin, normalize(TSub(pixel, origin))))))))

\* the depth World::render gives colour_at
RenderDepth == 5

\* World::render from the i-th turn of its loops on (_x outside, _y inside): Some(the
\* canvas), or None when colour_at or write_pixel panics
RECURSIVE RenderFrom(_, _, _, _)
RenderFrom(w, c, img, i) ==
    IF i = c.hsize * c.vsize THEN Some(img)
    ELSE
    Let(colour_at(w, ray_for_pixel(c, i \div c.vsize, i % c.vsize), RenderDepth), LAMBDA colour :
        IF ~colour.some THEN None
        ELSE
    Let(write_pixel(img, i \div c.vsize, i % c.vsize, colour.value), LAMBDA written :
        IF ~written.some THEN None
        ELSE RenderFrom(w, c, written.value, i + 1)))

render(w, c) == RenderFrom(w, c, Canvas_new(c.hsize, c.vsize, BLACK), 0)

-----------------------------------------------------------------------------
(* Intersections::new, Intersections::hit and Ray::prepare_computations on   *)
(* lists of intersections built by hand, as the tests of ray.rs build them.  *)

MaxLen == 3

TVals == {-Unit, 0, Unit, 2 * Unit}

GlassA == Object("Sphere", identity, Material(0, Unit, 15))
GlassB == Object("Sphere", translation(0, 2 * Unit, 0), Material(0, Unit, 2 * Unit))
GlassC == Object("Plane", translation(0, -2 * Unit, 0), Material(0, Unit, 25))
NoLights == <<>>

\* worlds of distinct objects, and one of two objects equal in transform, material and shape
XsWorlds ==
    {[objects |-> <<GlassA, GlassB>>, lights |-> NoLights],
     [objects |-> <<GlassA, GlassA>>, lights |-> NoLights],
     [objects |-> <<GlassC, GlassB, GlassA>>, lights |-> NoLights]}

XsRay == Ray(point(0, 5, 0), vector(0, Unit, 0))

XsIntersection(w) ==
    {Intersection(t, w.objects[i], i) : t \in TVals, i \in 1..Len(w.objects)}

XsVecs(w) == UNION {[1..n -> XsIntersection(w)] : n \in 0..MaxLen}

XsInit ==
    /\ world \in XsWorlds
    /\ ray = XsRay
    /\ vec \in XsVecs(world)
    /\ xs = NoValue
    /\ hit = NoValue
    /\ comps = NoValue
    /\ walk = NoValue
    /\ pc = "vec"
    /\ stack = <<>>
    /\ calls = <<>>
    /\ ret = None
    /\ cam = NoValue
    /\ image = NoValue

\* let xs = Intersections::new(vec)
IntersectionsNew ==
    /\ pc = "vec"
    /\ xs' = Intersections_new(vec)
    /\ pc' = "xs"
    /\ UNCHANGED <<stack, calls, ret, world, ray, vec, hit, comps, walk, cam, image>>

\* let hit = xs.hit()
Hit ==
    /\ pc = "xs"
    /\ hit' = Intersections_hit(xs)
    /\ pc' = "hit"
    /\ UNCHANGED <<stack, calls, ret, world, ray, vec, xs, comps, walk, cam, image>>

PrepareWith(k) ==
    \E w \in {ContainerWalk(xs.inters, xs.inters[k], 1, <<>>, {})} :
        /\ comps' = prepare_computations(ray, xs.inters[k], xs)
        /\ walk' = [k |-> k, stop |-> w.stop, removed |-> w.removed]
        /\ pc' = "comps"
        /\ UNCHANGED <<stack, calls, ret, world, ray, vec, xs, hit, cam, image>>

\* ray.prepare_computations(&hit, xs), as World::colour_at calls it
PrepareHit ==
    /\ pc = "hit"
    /\ hit.some
    /\ PrepareWith(HitIndex(xs.inters, 1))

\* ray.prepare_computations(&xs.inters[k].clone(), xs), as the tests call it
PrepareAt(k) ==
    /\ pc = "xs"
    /\ k \in 1..Len(xs.inters)
    /\ PrepareWith(k)

XsNext ==
    \/ IntersectionsNew
    \/ Hit
    \/ PrepareHit
    \/ \E k \in 1..MaxLen : PrepareAt(k)

SpecXs == XsInit /\ [][XsNext]_vars

-----------------------------------------------------------------------------
(* Ray::intersect and World::intersect on rays and objects, as the tests of  *)
(* ray.rs and world.rs call them.                                            *)

Sphere(transform) == Object("Sphere", transform, Material(0, 0, Unit))
Plane(transform) == Object("Plane", transform, Material(0, 0, Unit))

\* rotation_x(PI / 2): cosine 0, sine 1
QuarterTurnX == rot_x(0, Unit)

IxWorlds ==
    {[objects |-> <<Sphere(identity)>>, lights |-> NoLights],
     [objects |-> <<Sphere(scale(2 * Unit, 2 * Unit, 2 * Unit))>>, lights |-> NoLights],
     [objects |-> <<Sphere(translation(0, 0, 5 * Unit)), Sphere(identity)>>, lights |-> NoLights],
     [objects |-> <<Plane(identity)>>, lights |-> NoLights],
     [objects |-> <<Plane(translation(0, -Unit, 0)), Sphere(identity)>>, lights |-> NoLights],
     [objects |-> <<Sphere(identity), Plane(translation(0, -Unit, 0))>>, lights |-> NoLights],
     [objects |-> <<Plane(QuarterTurnX)>>, lights |-> NoLights]}

IxOrigins ==
    {point(0, 0, -5 * Unit), point(0, Unit, -5 * Unit), point(0, 2 * Unit, -5 * Unit),
     point(0, 0, 0), point(0, 0, 5 * Unit), point(0, 5 * Unit, 0)}

IxDirections ==
    {vector(0, 0, Unit), vector(0, Unit, 0), vector(0, -Unit, 0), vector(0, 0, -2 * Unit)}

IxInit ==
    /\ world \in IxWorlds
    /\ ray \in {Ray(o, d) : o \in IxOrigins, d \in IxDirections}
    /\ vec = NoValue
    /\ xs = NoValue
    /\ hit = NoValue
    /\ comps = NoValue
    /\ walk = NoValue
    /\ pc = "ray"
    /\ stack = <<>>
    /\ calls = <<>>
    /\ ret = None
    /\ cam = NoValue
    /\ image = NoValue

\* let vec = ray.intersect(&world.objects[i])
RayIntersect(i) ==
    /\ pc = "ray"
    /\ i \in 1..Len(world.objects)
    /\ vec' = intersect(ray, world.objects[i], i)
    /\ walk' = [object |-> i]
    /\ pc' = "intersect"
    /\ UNCHANGED <<stack, calls, ret, world, ray, xs, hit, comps, cam, image>>

\* let xs = world.intersect(&ray)
WorldIntersect ==
    /\ pc = "ray"
    /\ vec' = IntersectEach(world.objects, ray, 1)
    /\ xs' = World_intersect(world, ray)
    /\ pc' = "xs"
    /\ UNCHANGED <<stack, calls, ret, world, ray, hit, comps, walk, cam, image>>

IxNext ==
    \/ \E i \in 1..2 : RayIntersect(i)
    \/ WorldIntersect
    \/ Hit

SpecIntersect == IxInit /\ [][IxNext]_vars

-----------------------------------------------------------------------------
(* World::colour_at, shade_hit, reflected_colour and refracted_colour as a   *)
(* call stack: a call pushes a frame, a return pops it and hands its value   *)
(* to the caller through ret.  The first call is made on an idle world, as   *)
(* render and the tests of world.rs make it.                                 *)

MaxDepth == 3

MirrorLower == Object("Plane", translation(0, -Unit, 0), Material(Unit, 0, Unit))
MirrorUpper == Object("Plane", translation(0, Unit, 0), Material(Unit, 0, Unit))
Floor == Object("Plane", translation(0, -2 * Unit, 0), Material(5, 0, Unit))

LightAtOrigin == Light(point(0, 0, 0), WHITE)
LightAbove == Light(point(0, 10 * Unit, 0), WHITE)

WorldWorlds ==
    {[objects |-> <<MirrorLower, MirrorUpper>>, lights |-> <<LightAtOrigin>>],
     [objects |-> <<GlassA, Floor>>, lights |-> <<LightAbove>>],
     [objects |-> <<Sphere(identity)>>, lights |-> <<LightAbove>>],
     [objects |-> <<GlassA>>, lights |-> NoLights],
     [objects |-> <<GlassA, Floor>>, lights |-> <<LightAbove, LightAtOrigin>>],
     [objects |-> <<MirrorLower, MirrorUpper>>, lights |-> <<LightAtOrigin, LightAbove>>]}

WorldRays ==
    {Ray(point(0, 0, 0), vector(0, Unit, 0)),
     Ray(point(0, 5 * Unit, 0), vector(0, -Unit, 0)),
     Ray(point(0, 0, 7), vector(0, Unit, 0)),
     Ray(point(0, 5 * Unit, 0), vector(Unit, 0, 0)),
     Ray(point(0, 5 * Unit, 0), vector(0, Unit, 0))}

WorldInit ==
    /\ world \in WorldWorlds
    /\ ray \in WorldRays
    /\ vec = NoValue
    /\ xs = NoValue
    /\ hit = NoValue
    /\ comps = NoValue
    /\ walk = NoValue
    /\ pc = "idle"
    /\ stack = <<>>
    /\ calls = <<>>
    /\ ret = None
    /\ cam = NoValue
    /\ image = NoValue

Top == stack[Len(stack)]
TopCall == calls[Top.id]

Frame(id) == [id |-> id, at |-> "start", surface |-> BLACK, reflected |-> BLACK]

Running(fn, at) ==
    /\ pc = "running"
    /\ TopCall.fn = fn
    /\ Top.at = at

\* the first call
Enter(fn, arg, depth) ==
    /\ calls' = <<[fn |-> fn, arg |-> arg, depth |-> depth, parent |-> 0, result |-> None]>>
    /\ stack' = <<Frame(1)>>
    /\ ret' = None
    /\ pc' = "running"
    /\ UNCHANGED <<world, ray, vec, xs, hit, comps, walk, cam, image>>

\* the frame on top calls fn(arg, depth) and waits for it in waiting
Invoke(waiting, fn, arg, depth) ==
    /\ calls' = Append(calls, [fn |-> fn, arg |-> arg, depth |-> depth, parent |-> Top.id,
                               result |-> None])
    /\ stack' = Append([stack EXCEPT ![Len(stack)] = waiting], Frame(Len(calls) + 1))
    /\ ret' = None
    /\ UNCHANGED <<world, ray, vec, xs, hit, comps, walk, pc, cam, image>>

\* the frame on top returns value
Return(value) ==
    /\ calls' = [calls EXCEPT ![Top.id].result = Some(value)]
    /\ stack' = SubSeq(stack, 1, Len(stack) - 1)
    /\ ret' = Some(value)
    /\ pc' = IF Len(stack) = 1 THEN "done" ELSE "running"
    /\ UNCHANGED <<world, ray, vec, xs, hit, comps, walk, cam, image>>

\* the points the shadow tests of world.rs ask about: below, above and beside the
\* objects, and beyond the light
ShadowPoints ==
    {point(0, -5 * Unit, 0), point(0, 5 * Unit, 0), point(0, 20 * Unit, 0),
     point(5 * Unit, 0, 0)}

\* world.is_shadowed(p): the call returns at once, or self.lights[0] is out of bounds
CallIsShadowed(p) ==
    /\ pc = "idle"
    /\ IF world.lights = <<>>
       THEN /\ calls' = <<[fn |-> "is_shadowed", arg |-> p, depth |-> 0, parent |-> 0,
                           result |-> None]>>
            /\ ret' = None
            /\ pc' = "panic"
       ELSE \E shadowed \in {is_shadowed(world, p)} :
            /\ calls' = <<[fn |-> "is_shadowed", arg |-> p, depth |-> 0, parent |-> 0,
                           result |-> Some(shadowed)]>>
            /\ ret' = Some(shadowed)
            /\ pc' = "done"
    /\ UNCHANGED <<world, ray, vec, xs, hit, comps, walk, stack, cam, image>>

\* lighting(comps.object, light, comps.point, comps.eyev, comps.normalv, in_shadow)
\* for the comps of an intersection of the ray, a light on either side of the
\* surface, in shadow and out of it
CallLighting(k, light, in_shadow) ==
    /\ pc = "idle"
    /\ \E inters \in {World_intersect(world, ray)} :
           /\ k \in 1..Len(inters.inters)
           /\ \E c \in {prepare_computations(ray, inters.inters[k], inters)} :
              \E colour \in {lighting(c.object, light, c.point, c.eyev, c.normalv, in_shadow)} :
                  /\ calls' = <<[fn |-> "lighting",
                                 arg |-> [object |-> c.object, light |-> light,
                                          point |-> c.point, eyev |-> c.eyev,
                                          normalv |-> c.normalv, in_shadow |-> in_shadow],
                                 depth |-> 0, parent |-> 0, result |-> Some(colour)]>>
                  /\ ret' = Some(colour)
    /\ pc' = "done"
    /\ UNCHANGED <<world, ray, vec, xs, hit, comps, walk, stack, cam, image>>

\* world.colour_at(ray, depth)
CallColourAt(depth) ==
    /\ pc = "idle"
    /\ Enter("colour_at", ray, depth)

\* let xs = world.intersect(&ray); let comps = ray.prepare_computations(&xs.inters[k], xs);
\* world.fn(comps, depth)
CallWithComps(fn, k, depth) ==
    /\ pc = "idle"
    /\ \E inters \in {World_intersect(world, ray)} :
           /\ k \in 1..Len(inters.inters)
           /\ Enter(fn, prepare_computations(ray, inters.inters[k], inters), depth)

CallShadeHit(k, depth) == CallWithComps("shade_hit", k, depth)
CallReflectedColour(k, depth) == CallWithComps("reflected_colour", k, depth)
CallRefractedColour(k, depth) == CallWithComps("refracted_colour", k, depth)

ColourAt ==
    /\ Running("colour_at", "start")
    /\ \E inters \in {World_intersect(world, TopCall.arg)} :
       \E h \in {Intersections_hit(inters)} :
           IF h.some
           THEN Invoke([Top EXCEPT !.at = "shade_hit"], "shade_hit",
                       prepare_computations(TopCall.arg, h.value, inters), TopCall.depth)
           ELSE Return(BLACK)

ColourAtReturn ==
    /\ Running("colour_at", "shade_hit")
    /\ Return(ret.value)

\* shade_hit up to its call of reflected_colour
ShadeHit ==
    /\ Running("shade_hit", "start")
    /\ world.lights # <<>>
    /\ \E shadowed \in {is_shadowed(world, TopCall.arg.over_point)} :
       \E surface_colour \in {lighting(TopCall.arg.object, world.lights[1], TopCall.arg.point,
                                        TopCall.arg.eyev, TopCall.arg.normalv, shadowed)} :
           Invoke([Top EXCEPT !.at = "reflected_colour", !.surface = surface_colour],
                  "reflected_colour", TopCall.arg, TopCall.depth)

\* shade_hit when it reads self.lights[1]
ShadeHitPanicSecondLight ==
    /\ Running("shade_hit", "start")
    /\ Len(world.lights) < 2
    /\ pc' = "panic"
    /\ UNCHANGED <<world, ray, vec, xs, hit, comps, walk, stack, calls, ret, cam, image>>

\* a shade_hit that gives black when there is no light to read
ShadeHitDark ==
    /\ Running("shade_hit", "start")
    /\ world.lights = <<>>
    /\ Return(BLACK)

\* self.lights[0] on an empty list: the index is out of bounds
ShadeHitPanic ==
    /\ Running("shade_hit", "start")
    /\ world.lights = <<>>
    /\ pc' = "panic"
    /\ UNCHANGED <<world, ray, vec, xs, hit, comps, walk, stack, calls, ret, cam, image>>

ShadeHitReflected ==
    /\ Running("shade_hit", "reflected_colour")
    /\ Invoke([Top EXCEPT !.at = "refracted_colour", !.reflected = ret.value],
              "refracted_colour", TopCall.arg, TopCall.depth)

ShadeHitReturn ==
    /\ Running("shade_hit", "refracted_colour")
    /\ Return(CAdd(CAdd(Top.surface, Top.reflected), ret.value))

ReflectedColour ==
    /\ Running("reflected_colour", "start")
    /\ \E r \in {reflected_colour(TopCall.arg, TopCall.depth)} :
           IF r.cast
           THEN Invoke([Top EXCEPT !.at = "colour_at"], "colour_at", r.ray, r.depth)
           ELSE Return(r.colour)

ReflectedColourReturn ==
    /\ Running("reflected_colour", "colour_at")
    /\ Return(CScale(ret.value, TopCall.arg.object.material.reflective))

RefractedColour ==
    /\ Running("refracted_colour", "start")
    /\ \E r \in {refracted_colour(TopCall.arg, TopCall.depth)} :
           IF r.cast
           THEN Invoke([Top EXCEPT !.at = "colour_at"], "colour_at", r.ray, r.depth)
           ELSE Return(r.colour)

RefractedColourReturn ==
    /\ Running("refracted_colour", "colour_at")
    /\ Return(CScale(ret.value, TopCall.arg.object.material.transparency))

WorldNext ==
    \/ \E d \in 0..MaxDepth : CallColourAt(d)
    \/ \E k \in 1..MaxLen, d \in 0..MaxDepth : CallShadeHit(k, d)
    \/ \E k \in 1..MaxLen, d \in 0..MaxDepth : CallReflectedColour(k, d)
    \/ \E k \in 1..MaxLen, d \in 0..MaxDepth : CallRefractedColour(k, d)
    \/ \E p \in ShadowPoints : CallIsShadowed(p)
    \/ \E k \in 1..MaxLen, light \in {LightAtOrigin, LightAbove}, in_shadow \in BOOLEAN :
           CallLighting(k, light, in_shadow)
    \/ ColourAt
    \/ ColourAtReturn
    \/ ShadeHit
    \/ ShadeHitPanic
    \/ ShadeHitReflected
    \/ ShadeHitReturn
    \/ ReflectedColour
    \/ ReflectedColourReturn
    \/ RefractedColour
    \/ RefractedColourReturn

SpecWorld == WorldInit /\ [][WorldNext]_vars

-----------------------------------------------------------------------------
(* World::render, one turn of its inner loop at a time *)

MaxSize == 2

RenderInit ==
    /\ world \in WorldWorlds
    /\ cam \in {[Camera_new(hsize, vsize, Unit) EXCEPT !.transform = t] :
                    hsize \in 1..MaxSize, vsize \in 1..MaxSize,
                    t \in {identity, translation(0, 0, -5 * Unit)}}
    /\ image = NoValue
    /\ ray = NoValue
    /\ vec = NoValue
    /\ xs = NoValue
    /\ hit = NoValue
    /\ comps = NoValue
    /\ walk = NoValue
    /\ pc = "idle"
    /\ stack = <<>>
    /\ calls = <<>>
    /\ ret = None

\* let mut image = Canvas::new(cam.hsize, cam.vsize, BLACK); walk holds _x, _y and
\* the writes made so far (not program state)
Render ==
    /\ pc = "idle"
    /\ image' = Canvas_new(cam.hsize, cam.vsize, BLACK)
    /\ walk' = [x |-> 0, y |-> 0, written |-> <<>>]
    /\ pc' = "render"
    /\ UNCHANGED <<world, cam, ray, vec, xs, hit, comps, stack, calls, ret>>

\* one turn of the inner loop
RenderPixel ==
    /\ pc = "render"
    /\ walk.x < cam.hsize
    /\ \E colour \in {colour_at(world, ray_for_pixel(cam, walk.x, walk.y), RenderDepth)} :
           IF ~colour.some
           THEN pc' = "panic" /\ UNCHANGED <<image, walk>>
           ELSE \E w \in {write_pixel(image, walk.x, walk.y, colour.value)} :
                IF ~w.some
                THEN pc' = "panic: Writing pixel outside of canvas" /\ UNCHANGED <<image, walk>>
                ELSE /\ image' = w.value
                     /\ walk' = [x |-> IF walk.y + 1 = cam.vsize THEN walk.x + 1 ELSE walk.x,
                                 y |-> IF walk.y + 1 = cam.vsize THEN 0 ELSE walk.y + 1,
                                 written |-> Append(walk.written,
                                                    [x |-> walk.x, y |-> walk.y,
                                                     colour |-> colour.value])]
                     /\ pc' = pc
    /\ UNCHANGED <<world, cam, ray, vec, xs, hit, comps, stack, calls, ret>>

\* both loops are over: render returns image
RenderReturn ==
    /\ pc = "render"
    /\ walk.x = cam.hsize
    /\ ret' = Some(image)
    /\ pc' = "done"
    /\ UNCHANGED <<world, cam, image, ray, vec, xs, hit, comps, walk, stack, calls>>

RenderNext ==
    \/ Render
    \/ RenderPixel
    \/ RenderReturn

SpecRender == RenderInit /\ [][RenderNext]_vars

-----------------------------------------------------------------------------
(* The turns of the loops of World::render taken in any order by two workers *)
(* that share the world, the camera and the canvas: a worker takes a pixel   *)
(* nobody has taken, computes its colour, and writes it at a later step.     *)

Workers == {"a", "b"}

\* a camera of up to MaxSize columns and one or two rows in front of the glass
\* sphere over the floor and of the sphere alone
RenderSharedInit ==
    /\ world \in {[objects |-> <<GlassA, Floor>>, lights |-> <<LightAbove>>],
                  [objects |-> <<Sphere(identity)>>, lights |-> <<LightAbove>>]}
    /\ cam \in {[Camera_new(hsize, vsize, Unit) EXCEPT !.transform = translation(0, 0, -5 * Unit)] :
                    hsize \in 1..MaxSize, vsize \in {1, 2}}
    /\ image = NoValue
    /\ ray = NoValue
    /\ vec = NoValue
    /\ xs = NoValue
    /\ hit = NoValue
    /\ comps = NoValue
    /\ walk = NoValue
    /\ pc = "idle"
    /\ stack = <<>>
    /\ calls = <<>>
    /\ ret = None

\* let mut image = Canvas::new(cam.hsize, cam.vsize, BLACK); walk holds the pixels
\* taken and what each worker holds
RenderShared ==
    /\ pc = "idle"
    /\ image' = Canvas_new(cam.hsize, cam.vsize, BLACK)
    /\ walk' = [taken |-> {}, held |-> [k \in Workers |-> None]]
    /\ pc' = "render"
    /\ UNCHANGED <<world, cam, ray, vec, xs, hit, comps, stack, calls, ret>>

\* let r = cam.ray_for_pixel(_x, _y); let colour = self.colour_at(r, 5);
TakePixel(k, x, y) ==
    /\ pc = "render"
    /\ ~walk.held[k].some
    /\ <<x, y>> \notin walk.taken
    /\ \E colour \in {colour_at(world, ray_for_pixel(cam, x, y), RenderDepth)} :
           IF ~colour.some
           THEN pc' = "panic" /\ UNCHANGED walk
           ELSE /\ walk' = [taken |-> walk.taken \cup {<<x, y>>},
                            held |-> [walk.held EXCEPT
                                         ![k] = Some([x |-> x, y |-> y, colour |-> colour.value])]]
                /\ pc' = pc
    /\ UNCHANGED <<world, cam, image, ray, vec, xs, hit, comps, stack, calls, ret>>

\* image.write_pixel(_x, _y, colour);
WritePixel(k) ==
    /\ pc = "render"
    /\ walk.held[k].some
    /\ \E w \in {write_pixel(image, walk.held[k].value.x, walk.held[k].value.y,
                               walk.held[k].value.colour)} :
           IF ~w.some
           THEN pc' = "panic: Writing pixel outside of canvas" /\ UNCHANGED <<image, walk>>
           ELSE /\ image' = w.value
                /\ walk' = [walk EXCEPT !.held[k] = None]
                /\ pc' = pc
    /\ UNCHANGED <<world, cam, ray, vec, xs, hit, comps, stack, calls, ret>>

\* every pixel is taken and written: image is returned
RenderSharedReturn ==
    /\ pc = "render"
    /\ walk.taken = (0..(cam.hsize - 1)) \X (0..(cam.vsize - 1))
    /\ \A k \in Workers : ~walk.held[k].some
    /\ ret' = Some(image)
    /\ pc' = "done"
    /\ UNCHANGED <<world, cam, image, ray, vec, xs, hit, comps, walk, stack, calls>>

RenderSharedNext ==
    \/ RenderShared
    \/ \E k \in Workers, x \in 0..(cam.hsize - 1), y \in 0..(cam.vsize - 1) : TakePixel(k, x, y)
    \/ \E k \in Workers : WritePixel(k)
    \/ RenderSharedReturn

SpecRenderShared == RenderSharedInit /\ [][RenderSharedNext]_vars

-----------------------------------------------------------------------------
(* Writes to a canvas, one after the other, as the tests of canvas.rs make   *)
(* them; a write outside the canvas panics and ends the run.                 *)

RED == Colour(Unit, 0, 0)
BLUE == Colour(0, 0, Unit)

CanvasInit ==
    /\ world = NoValue
    /\ cam = NoValue
    /\ image \in {Canvas_new(width, height, BLUE) : width \in 1..MaxSize, height \in 1..MaxSize}
    /\ ray = NoValue
    /\ vec = NoValue
    /\ xs = NoValue
    /\ hit = NoValue
    /\ comps = NoValue
    /\ walk = NoValue
    /\ pc = "idle"
    /\ stack = <<>>
    /\ calls = <<>>
    /\ ret = None

\* image.write_pixel(width, height, colour)
CanvasWritePixel(width, height, colour) ==
    /\ pc = "idle"
    /\ \E after \in {write_pixel(image, width, height, colour)} :
           /\ calls' = <<[fn |-> "write_pixel",
                          arg |-> [canvas |-> image, width |-> width, height |-> height,
                                   colour |-> colour],
                          result |-> after]>>
           /\ image' = IF after.some THEN after.value ELSE image
           /\ pc' = IF after.some THEN "idle" ELSE "panic"
    /\ ret' = None
    /\ UNCHANGED <<world, cam, ray, vec, xs, hit, comps, walk, stack>>

CanvasNext ==
    \E width \in 0..MaxSize, height \in 0..MaxSize, colour \in {RED, BLUE} :
        CanvasWritePixel(width, height, colour)

SpecCanvas == CanvasInit /\ [][CanvasNext]_vars

-----------------------------------------------------------------------------
(* Canvas::to_ppm, one sample of a pixel at a time                           *)

MaxWidth == 6

\* the colour of ppm_linebreak, the colours of constructing_pixels
PpmColours == {Colour(Unit, 8, 6), BLACK, Colour(15, 0, 0), Colour(0, 5, 0), Colour(-5, NaN, Unit)}

\* canvases of one colour, and the same with the last pixel written in another
PpmInit ==
    /\ world = NoValue
    /\ cam = NoValue
    /\ image \in {Canvas_new(width, height, c) :
                       width \in 0..MaxWidth, height \in 0..MaxSize, c \in PpmColours}
                  \cup {write_pixel(Canvas_new(width, height, BLACK), width - 1, height - 1, c).value :
                            width \in 1..MaxWidth, height \in 1..MaxSize,
                            c \in PpmColours \ {BLACK}}
    /\ ray = NoValue
    /\ vec = NoValue
    /\ xs = NoValue
    /\ hit = NoValue
    /\ comps = NoValue
    /\ walk = to_ppm_start(image)
    /\ pc = "idle"
    /\ stack = <<>>
    /\ calls = <<>>
    /\ ret = None

\* image.to_ppm() is called
ToPpm ==
    /\ pc = "idle"
    /\ pc' = "running"
    /\ walk' = to_ppm_start(image)
    /\ calls' = <<[fn |-> "to_ppm", arg |-> image, result |-> None]>>
    /\ UNCHANGED <<world, cam, image, ray, vec, xs, hit, comps, stack, ret>>

\* one turn of the inner loop
ToPpmSample ==
    /\ pc = "running"
    /\ walk.k <= Len(image.pixels)
    /\ walk' = to_ppm_sample(image, walk)
    /\ UNCHANGED <<world, cam, image, ray, vec, xs, hit, comps, pc, stack, calls, ret>>

\* the loops are over: str is returned
ToPpmReturn ==
    /\ pc = "running"
    /\ walk.k > Len(image.pixels)
    /\ pc' = "done"
    /\ ret' = Some(walk.str)
    /\ UNCHANGED <<world, cam, image, ray, vec, xs, hit, comps, walk, stack, calls>>

PpmNext ==
    \/ ToPpm
    \/ ToPpmSample
    \/ ToPpmReturn

SpecPpm == PpmInit /\ [][PpmNext]_vars

-----------------------------------------------------------------------------
(* Single calls on values: comparison of two Intersection, element access of *)
(* the matrices, inverse, and Tuple / f32, as the unit tests make them.      *)

MaxIndex == 4

ValueIntersections ==
    {Intersection(t, GlassA, 1) : t \in TVals \cup {NaN}} \cup
    {Intersection(t, GlassB, 2) : t \in TVals \cup {NaN}}

\* a matrix of each size with all elements different
ValueMatrix(N) == [i \in 1..(N * N) |-> i * Unit] \o <<>>

\* matrices with determinant 1, 0.1 and 0
ValueMatrices ==
    {identity, translation(Unit, 2 * Unit, 3 * Unit), scale(2 * Unit, Unit, 5),
     scale(1, Unit, Unit), scale(0, Unit, Unit), ValueMatrix(4)}

\* a shear: whole numbers, determinant 1
ValueShear == <<Unit, Unit, 0, 0,   0, Unit, 0, 0,   0, 2 * Unit, Unit, 0,   0, 0, 0, Unit>>

\* matrices to invert after a product: whole numbers with determinant 1 or -1, a
\* scaling by 3 whose inverse is not on the grid, and a singular matrix
ValueInvertibles ==
    {identity, translation(Unit, 2 * Unit, 3 * Unit), QuarterTurnX, ValueShear,
     MulMatrix(translation(Unit, 2 * Unit, 3 * Unit), ValueShear),
     scale(-Unit, Unit, Unit), scale(3 * Unit, Unit, Unit), scale(0, Unit, Unit)}

ValueTuples == {point(Unit, -2 * Unit, 3 * Unit), vector(4 * Unit, 0, -5), Tuple(0, 0, 0, 0)}

ValueInit ==
    /\ world = NoValue
    /\ cam = NoValue
    /\ image = NoValue
    /\ ray = NoValue
    /\ vec = NoValue
    /\ xs = NoValue
    /\ hit = NoValue
    /\ comps = NoValue
    /\ walk = NoValue
    /\ pc = "idle"
    /\ stack = <<>>
    /\ calls = <<>>
    /\ ret = None

\* one call fn(arg) that returns value, or panics when value is None
Call(fn, arg, value) ==
    /\ pc = "idle"
    /\ calls' = <<[fn |-> fn, arg |-> arg, result |-> value]>>
    /\ ret' = value
    /\ pc' = IF value.some THEN "done" ELSE "panic"
    /\ UNCHANGED <<world, cam, image, ray, vec, xs, hit, comps, walk, stack>>

\* a == b and a.cmp(&b)
Compare(a, b) ==
    Call("cmp", <<a, b>>, Some([eq |-> IntersectionEq(a, b), cmp |-> cmp(a, b)]))

\* matrix.value_at(m, n)
ValueAt(N, m, n) ==
    Call("value_at", [N |-> N, M |-> ValueMatrix(N), m |-> m, n |-> n],
         Matrix_value_at(N, ValueMatrix(N), m, n))

\* matrix.write_value(m, n, value)
WriteValue(N, m, n, value) ==
    Call("write_value", [N |-> N, M |-> ValueMatrix(N), m |-> m, n |-> n, value |-> value],
         Matrix_write_value(N, ValueMatrix(N), m, n, value))

\* matrix.inverse(), matrix.rs
Inverse(M) == Call("inverse", M, Matrix4x4_inverse(M))

\* matrix.inverse(), lib.rs
LibInverse(M) == Call("lib::inverse", M, lib_inverse(M))

\* a / rhs
Divide(a, rhs) == Call("div", [a |-> a, rhs |-> rhs], TDiv(a, rhs))

\* (a * b) * b.inverse() and b.inverse().inverse(), as invert_multiply4x4
InvertMultiply(a, b) ==
    \E inv \in {Matrix4x4_inverse(b)} :
    \E back \in {IF inv.some THEN Matrix4x4_inverse(inv.value) ELSE None} :
        Call("invert_multiply", <<a, b>>,
             IF inv.some /\ back.some
             THEN Some([product |-> MulMatrix(MulMatrix(a, b), inv.value), twice |-> back.value])
             ELSE None)

\* the matrices of determinant3x3 and determinant4x4, and matrices with
\* fractional elements whose products are rounded
ValueDeterminants ==
    {[N |-> 3, M |-> <<Unit, 2 * Unit, 6 * Unit,   -5 * Unit, 8 * Unit, -4 * Unit,
                       2 * Unit, 6 * Unit, 4 * Unit>>],
     [N |-> 3, M |-> <<0, 5, 0,   3, 0, 0,   0, 0, 5>>],
     [N |-> 3, M |-> <<2, 7, 0,   1, 3, 1,   5, 0, 5>>],
     [N |-> 4, M |-> <<-2 * Unit, -8 * Unit, 3 * Unit, 5 * Unit,
                       -3 * Unit, Unit, 7 * Unit, 3 * Unit,
                       Unit, 2 * Unit, -9 * Unit, 6 * Unit,
                       -6 * Unit, 7 * Unit, 7 * Unit, -9 * Unit>>],
     [N |-> 4, M |-> <<0, 5, 0, 0,   3, 0, 0, 0,   0, 0, 5, 0,   0, 0, 0, Unit>>],
     [N |-> 4, M |-> <<0, 5, 0, 2 * Unit,   -5, 0, 3, 0,   0, 7, 0, 0,   7, 0, 0, 0>>],
     [N |-> 4, M |-> ValueShear],
     [N |-> 4, M |-> ValueMatrix(4)]}

\* matrix.determinant()
Determinant(N, M) ==
    Call("determinant", [N |-> N, M |-> M],
         Some(IF N = 3 THEN determinant3(M) ELSE determinant(M)))

\* stripes of two pairs of colours
ValuePatterns == {Pattern_new_striped(WHITE, BLACK), Pattern_new_striped(Colour(Unit, 0, 0), WHITE)}

\* -2.1 .. 2.9 around the stripe edges, and the values that are no number
ValueCoordinates ==
    {-21, -2 * Unit, -11, -Unit, -1, 0, 9, Unit, 19, 2 * Unit, 29, NaN, PosInf, NegInf}

\* pattern.pattern_at(point(x, y, z))
PatternAt(pattern, x, y, z) ==
    Call("pattern_at", [pattern |-> pattern, point |-> point(x, y, z)],
         Some(Pattern_pattern_at(pattern, point(x, y, z))))

ValueNext ==
    \/ \E pattern \in ValuePatterns, x \in ValueCoordinates, y \in {0, Unit, 2 * Unit},
          z \in {0, Unit, 2 * Unit} : PatternAt(pattern, x, y, z)
    \/ \E d \in ValueDeterminants : Determinant(d.N, d.M)
    \/ \E a \in ValueIntersections, b \in ValueIntersections : Compare(a, b)
    \/ \E N \in {2, 3, 4}, m \in 0..MaxIndex, n \in 0..MaxIndex : ValueAt(N, m, n)
    \/ \E N \in {2, 3, 4}, m \in 0..MaxIndex, n \in 0..MaxIndex : WriteValue(N, m, n, -Unit)
    \/ \E M \in ValueMatrices : Inverse(M)
    \/ \E M \in ValueMatrices : LibInverse(M)
    \/ \E a \in ValueTuples, rhs \in {-2 * Unit, -5, 0, 5, 2 * Unit} : Divide(a, rhs)
    \/ \E a \in {ValueMatrix(4), translation(-Unit, 0, 2 * Unit), QuarterTurnX},
          b \in ValueInvertibles : InvertMultiply(a, b)

SpecValue == ValueInit /\ [][ValueNext]_vars

-----------------------------------------------------------------------------
(* Claims about the intersection list *)

Count(s, e) == Cardinality({i \in 1..Len(s) : s[i] = e})
Elems(s) == {s[i] : i \in 1..Len(s)}

\* C1: hit() returns the first intersection, in the ascending order of the
\* sorted list, whose t is strictly greater than 0, and returns none exactly
\* when no intersection has t > 0.
C1_HitIsFirstPositive ==
    pc = "hit" =>
        /\ hit.some <=> (\E i \in 1..Len(xs.inters) : xs.inters[i].t > 0)
        /\ hit.some =>
              \E j \in 1..Len(xs.inters) :
                  /\ hit.value = xs.inters[j]
                  /\ xs.inters[j].t > 0
                  /\ \A i \in 1..(j - 1) : xs.inters[i].t <= 0

\* a hit that was preceded in the sorted list by intersections at t < 0 and at t = 0
C1_Witness ==
    /\ pc = "hit"
    /\ hit.some
    /\ \E i \in 1..Len(xs.inters) : xs.inters[i].t = 0
    /\ \E i \in 1..Len(xs.inters) : xs.inters[i].t < 0

C3_NewIsSortedPermutation ==
    pc # "vec" =>
        /\ Len(xs.inters) = Len(vec)
        /\ \A e \in Elems(vec) \cup Elems(xs.inters) : Count(xs.inters, e) = Count(vec, e)
        /\ \A i, j \in 1..Len(xs.inters) : i < j => xs.inters[i].t <= xs.inters[j].t

\* a list built from an input in descending order that holds an element twice
C3_Witness ==
    /\ pc = "xs"
    /\ Len(vec) = MaxLen
    /\ \A i \in 1..(Len(vec) - 1) : vec[i].t >= vec[i + 1].t
    /\ vec[1].t > vec[Len(vec)].t
    /\ \E i, j \in 1..Len(vec) : i < j /\ vec[i] = vec[j]

\* the containers after the toggles of the first k intersections of a list
RECURSIVE ContainersAfter(_, _)
ContainersAfter(inters, k) ==
    IF k = 0 THEN <<>> ELSE Toggle(ContainersAfter(inters, k - 1), inters[k])

\* C4 as stated: n1 is the refractive index of the last container after the
\* toggles of all intersections before the hit, n2 the one after the toggle of
\* the hit's own object as well (1.0 for no container); walk.k is the place of
\* the hit in the sorted list.
C4_N1N2AtTheHit ==
    pc = "comps" =>
        /\ comps.n1 = LastIndex(ContainersAfter(xs.inters, walk.k - 1))
        /\ comps.n2 = LastIndex(ContainersAfter(xs.inters, walk.k))

\* C5 as stated: an intersection of an object removes a container entry only
\* if an earlier intersection of that same object had pushed the entry.
C5_RemovedByOwner ==
    pc = "comps" => \A r \in walk.removed : r.by = r.pushed

-----------------------------------------------------------------------------
(* Claims about Ray::intersect *)

\* the ray of the state, in the local space of the object RayIntersect took
LocalRay == ray_transform(ray, inverse(world.objects[walk.object].transform))

\* C7: for a plane with an invertible transform, Ray::intersect returns no
\* intersection exactly when the y of the ray direction in the plane's local space
\* is within epsilon of 0, and else one intersection at t = -origin.y / direction.y
\* of the local-space ray.
C7_PlaneLocalSpace ==
    (pc = "intersect" /\ world.objects[walk.object].shape = "Plane") =>
        \E l \in {LocalRay} :
            IF Abs(l.direction.y) < DEFAULT_EPSILON
            THEN vec = <<>>
            ELSE /\ Len(vec) = 1
                 /\ vec[1].t = FDiv(-l.origin.y, l.direction.y)

\* C8: for a sphere, Ray::intersect returns no intersection when the discriminant
\* b*b - 4*a*c of the local-space quadratic is negative, and else exactly two
\* intersections, both carrying the intersected object, the first t less than or
\* equal to the second.
C8_SphereTwoOrdered ==
    (pc = "intersect" /\ world.objects[walk.object].shape = "Sphere") =>
        \E q \in {Quadratic(LocalRay)} :
            IF FMul(q.b, q.b) - FMul(FMul(4 * Unit, q.a), q.c) < 0
            THEN vec = <<>>
            ELSE /\ Len(vec) = 2
                 /\ vec[1].object = world.objects[walk.object]
                 /\ vec[2].object = world.objects[walk.object]
                 /\ vec[1].src = walk.object /\ vec[2].src = walk.object
                 /\ FLt(vec[1].t, vec[2].t) \/ FEq(vec[1].t, vec[2].t)

\* a ray that touches the sphere: two intersections with the same t
C8_Witness ==
    /\ pc = "intersect"
    /\ world.objects[walk.object].shape = "Sphere"
    /\ Len(vec) = 2
    /\ vec[1].t = vec[2].t

-----------------------------------------------------------------------------
(* Claims about the recursion of World::colour_at *)

\* the calls a call has made itself
Callees(i) == {j \in 1..Len(calls) : calls[j].parent = i}

\* the colour_at calls under way
Nesting == Cardinality({j \in 1..Len(stack) : calls[stack[j].id].fn = "colour_at"})

C6_DepthDecreases ==
    \A i \in 1..Len(calls) :
        /\ (calls[i].fn = "colour_at" /\ calls[i].parent # 0) =>
               /\ calls[calls[i].parent].fn \in {"reflected_colour", "refracted_colour"}
               /\ calls[calls[i].parent].depth > 0
               /\ calls[i].depth = calls[calls[i].parent].depth - 1
        /\ (calls[i].fn # "colour_at" /\ calls[i].parent # 0) =>
               calls[i].depth = calls[calls[i].parent].depth
        /\ calls[i].depth = 0 => \A j \in Callees(i) : calls[j].fn # "colour_at"

\* the most steps a call of reflected_colour or refracted_colour, of shade_hit and of
\* colour_at can take at depth d, the steps of the calls it makes included
RECURSIVE CastSteps(_)
CastSteps(d) == IF d = 0 THEN 1 ELSE 2 + (2 + (3 + 2 * CastSteps(d - 1)))
ShadeHitSteps(d) == 3 + 2 * CastSteps(d)
ColourAtSteps(d) == 2 + ShadeHitSteps(d)

\* the steps the frame stack[j] can still take itself, once the call it waits for is back
FrameSteps(j) ==
    LET fn == calls[stack[j].id].fn
        d == calls[stack[j].id].depth
        at == stack[j].at
    IN  CASE fn = "colour_at" -> IF at = "start" THEN ColourAtSteps(d) ELSE 1
          [] fn = "shade_hit" -> IF at = "start" THEN ShadeHitSteps(d)
                                 ELSE IF at = "reflected_colour" THEN 2 + CastSteps(d) ELSE 1
          [] OTHER -> IF at = "start" THEN CastSteps(d) ELSE 1

RECURSIVE StackSteps(_)
StackSteps(j) == IF j = 0 THEN 0 ELSE FrameSteps(j) + StackSteps(j - 1)

\* a bound on the steps the program can still take
StepsLeft ==
    IF pc = "idle" THEN ColourAtSteps(MaxDepth) + 1
    ELSE IF pc = "panic" THEN 0
    ELSE StackSteps(Len(stack))

\* the frame on top is at a place where one of the methods goes on: at its start,
\* or at the return of the call it made, with the value of that call in ret
CanStep ==
    /\ stack # <<>>
    /\ \/ Top.at = "start" /\ ret = None
       \/ /\ ret.some
          /\ <<TopCall.fn, Top.at>> \in {<<"colour_at", "shade_hit">>,
                                         <<"shade_hit", "reflected_colour">>,
                                         <<"shade_hit", "refracted_colour">>,
                                         <<"reflected_colour", "colour_at">>,
                                         <<"refracted_colour", "colour_at">>}

\* C6: colour_at(ray, d) terminates for every depth d: every colour_at call made by
\* reflected_colour or refracted_colour has a depth one less than its caller's, none
\* is made at depth 0, the nesting of colour_at calls never exceeds d + 1, a call
\* that has not ended goes on, and every step lowers the bound StepsLeft.
C6_ColourAtTerminates ==
    /\ [](/\ C6_DepthDecreases
          /\ calls # <<>> => Nesting <= calls[1].depth + 1
          /\ pc = "running" => CanStep
          /\ pc = "done" => stack = <<>> /\ calls[1].result.some)
    /\ [][StepsLeft' < StepsLeft /\ StepsLeft' >= 0]_vars

\* between the two facing mirrors colour_at(ray, MaxDepth) is nested MaxDepth + 1 deep
C6_Witness ==
    /\ pc = "running"
    /\ world.objects = <<MirrorLower, MirrorUpper>>
    /\ calls[1].fn = "colour_at"
    /\ calls[1].depth = MaxDepth
    /\ Nesting = MaxDepth + 1

\* C9: reflected_colour(comps, depth) returns black without casting a ray whenever
\* depth is 0 or the reflective coefficient of the hit object is 0; otherwise it
\* returns colour_at(ray from over_point along reflectv, depth - 1) multiplied by
\* the reflective coefficient.
C9_ReflectedColour ==
    \A i \in 1..Len(calls) :
        calls[i].fn = "reflected_colour" =>
            IF calls[i].depth = 0 \/ calls[i].arg.object.material.reflective = 0
            THEN /\ Callees(i) = {}
                 /\ calls[i].result.some => calls[i].result.value = BLACK
            ELSE /\ Cardinality(Callees(i)) <= 1
                 /\ \A j \in Callees(i) :
                        /\ calls[j].fn = "colour_at"
                        /\ calls[j].arg = Ray(calls[i].arg.over_point, calls[i].arg.reflectv)
                        /\ calls[j].depth = calls[i].depth - 1
                 /\ calls[i].result.some =>
                        \E j \in Callees(i) :
                            /\ calls[j].result.some
                            /\ calls[i].result.value =
                                   CScale(calls[j].result.value,
                                          calls[i].arg.object.material.reflective)

\* a reflected_colour that cast its ray and returned a colour other than black
C9_Witness ==
    \E i \in 1..Len(calls) :
        /\ calls[i].fn = "reflected_colour"
        /\ calls[i].result.some
        /\ calls[i].result.value # BLACK
        /\ Callees(i) # {}

\* (n1 / n2)^2 * (1 - cos_i^2) > 1 for the Computations c
TotalInternalReflection(c) ==
    \E n_ratio \in {FDiv(c.n1, c.n2)} : \E cos_i \in {dot(c.eyev, c.normalv)} :
        FGt(FMul(FMul(n_ratio, n_ratio), Unit - FMul(cos_i, cos_i)), Unit)

\* C10: refracted_colour(comps, depth) returns black whenever depth is 0, the
\* transparency of the hit object is 0 or total internal reflection occurs, and in
\* none of the three cases is a refracted ray cast.
C10_RefractedColourBlack ==
    \A i \in 1..Len(calls) :
        (/\ calls[i].fn = "refracted_colour"
         /\ \/ calls[i].depth = 0
            \/ calls[i].arg.object.material.transparency = 0
            \/ TotalInternalReflection(calls[i].arg)) =>
            /\ Callees(i) = {}
            /\ calls[i].result.some => calls[i].result.value = BLACK

\* a refracted_colour that returned under total internal reflection, depth and
\* transparency being positive
C10_Witness ==
    \E i \in 1..Len(calls) :
        /\ calls[i].fn = "refracted_colour"
        /\ calls[i].depth > 0
        /\ calls[i].arg.object.material.transparency > 0
        /\ TotalInternalReflection(calls[i].arg)
        /\ calls[i].result.some

-----------------------------------------------------------------------------
(* Claims about shadows and lighting *)

\* the distances along the ray from p toward the first light at which it meets an
\* object in front of p
PositiveHits(p) ==
    Let(World_intersect(world, Ray(p, normalize(TSub(world.lights[1].position, p)))), LAMBDA inters :
        {inters.inters[j].t : j \in {j \in 1..Len(inters.inters) : inters.inters[j].t > 0}})

Nearest(ts) == CHOOSE t \in ts : \A u \in ts : t <= u

\* C11: is_shadowed(p) is true exactly when the ray from p toward the light has a
\* nearest positive hit and that hit is nearer than the light; an object behind the
\* light or behind p does not shadow p
C11_ShadowedIffHitBeforeLight ==
    (pc = "done" /\ calls[1].fn = "is_shadowed") =>
        \E ts \in {PositiveHits(calls[1].arg)} :
        \E distance \in {magnitude(TSub(world.lights[1].position, calls[1].arg))} :
            calls[1].result.value = (ts # {} /\ Nearest(ts) < distance)

\* a point in shadow, and a point the objects are behind the light of
C11_Witness ==
    /\ pc = "done" /\ calls[1].fn = "is_shadowed" /\ calls[1].result.value
    /\ world.objects = <<GlassA, Floor>>

C11_WitnessBehindLight ==
    /\ pc = "done" /\ calls[1].fn = "is_shadowed" /\ ~calls[1].result.value
    /\ PositiveHits(calls[1].arg) # {}

\* the world with the lights after the first taken away
FirstLight(w) == [w EXCEPT !.lights = <<w.lights[1]>>]

\* C12: in a world with a light, is_shadowed, shade_hit and colour_at return what
\* they return in the world that has the first light only, so worlds that differ in
\* the lights after the first return the same
C12_OnlyFirstLight ==
    (pc = "done" /\ world.lights # <<>>) =>
        \E w \in {FirstLight(world)} :
            /\ calls[1].fn = "is_shadowed" =>
                   calls[1].result.value = is_shadowed(w, calls[1].arg)
            /\ calls[1].fn = "shade_hit" =>
                   calls[1].result = shade_hit(w, calls[1].arg, calls[1].depth)
            /\ calls[1].fn = "colour_at" =>
                   calls[1].result = colour_at(w, calls[1].arg, calls[1].depth)

\* a colour other than black found in a world with two lights
C12_Witness ==
    /\ pc = "done" /\ Len(world.lights) = 2
    /\ calls[1].fn = "colour_at" /\ calls[1].result.value # BLACK

\* the ambient term of a call of lighting, and the dot product of its light vector
\* and normal
Ambient(a) ==
    CScale(CMul(pattern_at(a.object, a.point), a.light.intensity), a.object.material.ambient)

LightDotNormal(a) == dot(normalize(TSub(a.light.position, a.point)), a.normalv)

\* C13: lighting returns the ambient term alone when in_shadow is true or the light
\* is on the other side of the surface, and the ambient term plus a diffuse and
\* specular part that are not negative in every other case
C13_LightingAmbient ==
    (pc = "done" /\ calls[1].fn = "lighting") =>
        \E ambient \in {Ambient(calls[1].arg)} :
        \E result \in {calls[1].result.value} :
            /\ (calls[1].arg.in_shadow \/ LightDotNormal(calls[1].arg) < 0) => result = ambient
            /\ result.red >= ambient.red /\ result.green >= ambient.green
            /\ result.blue >= ambient.blue

\* a point that is not in shadow, with the light behind the surface
C13_Witness ==
    /\ pc = "done" /\ calls[1].fn = "lighting"
    /\ ~calls[1].arg.in_shadow /\ LightDotNormal(calls[1].arg) < 0
    /\ calls[1].result.value = Ambient(calls[1].arg)

C13_WitnessInShadow ==
    /\ pc = "done" /\ calls[1].fn = "lighting"
    /\ calls[1].arg.in_shadow /\ LightDotNormal(calls[1].arg) > 0

C13_WitnessLit ==
    /\ pc = "done" /\ calls[1].fn = "lighting"
    /\ calls[1].result.value.red > Ambient(calls[1].arg).red

-----------------------------------------------------------------------------
(* Claims about World::render *)

\* C14: render writes the pixels (x, y) with x < hsize and y < vsize once each, with
\* colour_at(ray_for_pixel(x, y), 5); write_pixel does not panic; the canvas
\* returned is hsize by vsize and holds those colours
C14_RenderWritesEachPixelOnce ==
    /\ pc # "panic: Writing pixel outside of canvas"
    /\ pc \in {"render", "done"} =>
           /\ \A i \in 1..Len(walk.written) :
                  \E px \in {walk.written[i]} :
                      /\ px.x \in 0..(cam.hsize - 1)
                      /\ px.y \in 0..(cam.vsize - 1)
                      /\ \A j \in 1..Len(walk.written) :
                             (walk.written[j].x = px.x /\ walk.written[j].y = px.y) => j = i
                      /\ Some(px.colour) = colour_at(world, ray_for_pixel(cam, px.x, px.y), 5)
           /\ image.width = cam.hsize /\ image.height = cam.vsize
           /\ Len(image.pixels) = cam.hsize * cam.vsize
    /\ pc = "done" =>
           /\ Len(walk.written) = cam.hsize * cam.vsize
           /\ ret = Some(image)
           /\ \A x \in 0..(cam.hsize - 1), y \in 0..(cam.vsize - 1) :
                  Some(image.pixels[y * cam.hsize + x + 1]) =
                      colour_at(world, ray_for_pixel(cam, x, y), 5)

\* a canvas returned with pixels of two colours
C14_Witness ==
    /\ pc = "done" /\ cam.hsize = 2 /\ cam.vsize = 2
    /\ image.pixels[1] # image.pixels[3]

\* C15: whatever the order in which the pixels are taken and written, and however
\* the steps of two pixels interleave, the canvas is the one render returns
C15_RenderOrderFree ==
    /\ pc # "panic: Writing pixel outside of canvas"
    /\ pc = "done" => Some(image) = render(world, cam)

\* a canvas of two colours finished with the first pixel of the loops written last
C15_Witness ==
    /\ pc = "render" /\ cam.hsize = 2 /\ cam.vsize = 2
    /\ walk.taken = (0..1) \X (0..1)
    /\ \E k \in Workers :
           /\ walk.held[k].some /\ walk.held[k].value.x = 0 /\ walk.held[k].value.y = 0
           /\ \A j \in Workers \ {k} : ~walk.held[j].some
    /\ image.pixels[2] # image.pixels[3]

-----------------------------------------------------------------------------
(* Claims about panics *)

\* C16: in a world with a light whose transforms are invertible, a call of colour_at
\* does not panic, and returns a colour when it is over: a ray that meets nothing,
\* a hit in shadow, total internal reflection and depth 0 are ordinary values
C16_ColourAtNeverPanics ==
    (/\ calls # <<>>
     /\ calls[1].fn = "colour_at"
     /\ world.lights # <<>>
     /\ \A i \in 1..Len(world.objects) : invertible(world.objects[i].transform)) =>
        /\ pc # "panic"
        /\ pc = "done" => calls[1].result.some

\* a colour_at that is over after a total internal reflection inside it
C16_Witness ==
    /\ pc = "done" /\ calls[1].fn = "colour_at" /\ world.lights # <<>>
    /\ \E i \in 1..Len(calls) :
           /\ calls[i].fn = "refracted_colour"
           /\ calls[i].depth > 0
           /\ TotalInternalReflection(calls[i].arg)

\* a colour_at whose ray meets nothing, and one that ends at depth 0
C16_WitnessMiss ==
    /\ pc = "done" /\ calls[1].fn = "colour_at" /\ world.lights # <<>>
    /\ World_intersect(world, calls[1].arg).inters = <<>>
    /\ calls[1].result = Some(BLACK)

C16_WitnessDepth ==
    /\ pc = "done" /\ calls[1].fn = "colour_at" /\ world.lights # <<>>
    /\ \E i \in 1..Len(calls) :
           /\ calls[i].fn = "reflected_colour" /\ calls[i].depth = 0
           /\ calls[i].arg.object.material.reflective > 0

-----------------------------------------------------------------------------
(* Claims about single calls on values *)

\* C17: two Intersection are equal exactly when their t are equal, whatever their
\* objects, and a == b exactly when cmp(a, b) is Equal
C17_EqAgreesWithCmp ==
    (pc = "done" /\ calls[1].fn = "cmp") =>
        /\ calls[1].result.value.eq = FEq(calls[1].arg[1].t, calls[1].arg[2].t)
        /\ calls[1].result.value.eq = (calls[1].result.value.cmp = "Equal")

\* what does hold: equality looks at t alone, and cmp orders by t alone
C17_ByTAlone ==
    (pc = "done" /\ calls[1].fn = "cmp") =>
        \E a \in {calls[1].arg[1]} : \E b \in {calls[1].arg[2]} :
            /\ calls[1].result.value.eq = FEq(a.t, b.t)
            /\ calls[1].result.value.cmp = cmp([a EXCEPT !.object = b.object, !.src = b.src], b)
            /\ calls[1].result.value.cmp = "Less" <=> cmp(b, a) = "Greater"
            /\ calls[1].result.value.cmp = "Equal" <=> cmp(b, a) = "Equal"

\* C18: value_at and write_value of an N x N matrix panic exactly when m >= N or
\* n >= N; in range, value_at returns the element m * N + n, write_value changes
\* that element alone, and value_at(m, n) then returns the value written
C18_MatrixAccessChecked ==
    (calls # <<>> /\ calls[1].fn \in {"value_at", "write_value"}) =>
        \E a \in {calls[1].arg} :
            /\ (pc = "panic") = (a.m >= a.N \/ a.n >= a.N)
            /\ (pc = "done" /\ calls[1].fn = "value_at") =>
                   calls[1].result.value = a.M[a.m * a.N + a.n + 1]
            /\ (pc = "done" /\ calls[1].fn = "write_value") =>
                   /\ Len(calls[1].result.value) = a.N * a.N
                   /\ \A i \in 1..(a.N * a.N) :
                          calls[1].result.value[i] =
                              IF i = a.m * a.N + a.n + 1 THEN a.value ELSE a.M[i]
                   /\ Matrix_value_at(a.N, calls[1].result.value, a.m, a.n) = Some(a.value)

\* a write below the diagonal of each size
C18_Witness ==
    /\ pc = "done" /\ calls[1].fn = "write_value"
    /\ calls[1].arg.m = calls[1].arg.N - 1 /\ calls[1].arg.n = 0

C18_WitnessPanic ==
    /\ pc = "panic" /\ calls[1].fn = "value_at"
    /\ calls[1].arg.m < calls[1].arg.N /\ calls[1].arg.n = calls[1].arg.N

\* C19: inverse() panics exactly when invertible() is false, in matrix.rs and in
\* lib.rs
C19_InversePanicsIffNotInvertible ==
    (calls # <<>> /\ calls[1].fn \in {"inverse", "lib::inverse"}) =>
        (pc = "panic") = ~invertible(calls[1].arg)

\* what does hold: the inverse of matrix.rs panics exactly when invertible() is false
C19_MatrixRsInverse ==
    (calls # <<>> /\ calls[1].fn = "inverse") => (pc = "panic") = ~invertible(calls[1].arg)

\* C20: a Tuple divided by 0 panics; divided by another scalar, each of x, y, z and
\* w is divided by it
C20_TupleDiv ==
    (calls # <<>> /\ calls[1].fn = "div") =>
        \E a \in {calls[1].arg.a} : \E rhs \in {calls[1].arg.rhs} :
            /\ (pc = "panic") = (rhs = 0)
            /\ pc = "done" =>
                   /\ calls[1].result.value.x = FDiv(a.x, rhs)
                   /\ calls[1].result.value.y = FDiv(a.y, rhs)
                   /\ calls[1].result.value.z = FDiv(a.z, rhs)
                   /\ calls[1].result.value.w = FDiv(a.w, rhs)

\* a point divided by 2: w becomes 0.5
C20_Witness ==
    /\ pc = "done" /\ calls[1].fn = "div"
    /\ calls[1].arg.a.w = Unit /\ calls[1].arg.rhs = 2 * Unit
    /\ calls[1].result.value.w = 5

C20_WitnessPanic == pc = "panic" /\ calls[1].fn = "div" /\ calls[1].arg.a.w = Unit

\* a matrix of whole numbers whose determinant is 1 or -1: its cofactors and its
\* inverse are whole numbers, and the arithmetic on whole numbers is exact
WholeUnimodular(M) ==
    /\ \A i \in 1..16 : M[i] % Unit = 0
    /\ determinant(M) \in {Unit, -Unit}

\* C21: where the arithmetic is exact, (a * b) * b.inverse() is a and
\* b.inverse().inverse() is b
C21_InverseRoundTrip ==
    (calls # <<>> /\ calls[1].fn = "invert_multiply" /\ WholeUnimodular(calls[1].arg[2])) =>
        /\ pc = "done"
        /\ calls[1].result.value.product = calls[1].arg[1]
        /\ calls[1].result.value.twice = calls[1].arg[2]

\* a product with a matrix that is neither diagonal nor symmetric, taken back
C21_Witness ==
    /\ pc = "done" /\ calls[1].fn = "invert_multiply"
    /\ calls[1].arg[1] = ValueMatrix(4)
    /\ calls[1].arg[2] = MulMatrix(translation(Unit, 2 * Unit, 3 * Unit), ValueShear)
    /\ calls[1].result.value.product = ValueMatrix(4)

\* with rounding the round trip is not exact: 1 / (1 / 3) on the grid is not 3
C21_WitnessRounded ==
    /\ pc = "done" /\ calls[1].fn = "invert_multiply"
    /\ calls[1].result.value.twice # calls[1].arg[2]

-----------------------------------------------------------------------------
(* Claims about Ray::prepare_computations *)

\* the calls that were handed a Computations
WithComps == {i \in 1..Len(calls) : calls[i].fn \in {"shade_hit", "reflected_colour", "refracted_colour"}}

\* C22: in what prepare_computations returns, inside is true exactly when the normal
\* of the object at the point and the eye vector have a negative dot product, normalv
\* is the negated normal then and the normal otherwise, the eye vector is the negated
\* direction of the ray, and normalv . eyev >= 0
C22_InsideFlipsNormal ==
    pc \in {"running", "done"} =>
        \A i \in WithComps :
            \E c \in {calls[i].arg} : \E n \in {normal_at(c.object, c.point)} :
                /\ c.inside = (dot(n, c.eyev) < 0)
                /\ c.normalv = (IF c.inside THEN TNeg(n) ELSE n)
                /\ dot(c.normalv, c.eyev) >= 0
                /\ calls[i].parent = 0 => c.eyev = TNeg(ray.direction)
                /\ calls[i].parent # 0 /\ calls[calls[i].parent].fn = "colour_at" =>
                       c.eyev = TNeg(calls[calls[i].parent].arg.direction)

\* a hit from inside an object, found by colour_at
C22_Witness ==
    /\ pc = "done"
    /\ \E i \in WithComps :
           /\ calls[i].parent # 0 /\ calls[i].arg.inside
           /\ calls[i].arg.normalv # normal_at(calls[i].arg.object, calls[i].arg.point)

C22_WitnessOutside ==
    /\ pc = "done"
    /\ \E i \in WithComps : calls[i].parent # 0 /\ ~calls[i].arg.inside

-----------------------------------------------------------------------------
(* Claims about the determinant *)

Matrix_cofactor(N, M, m, n) == IF N = 3 THEN cofactor3(M, m, n) ELSE cofactor(M, m, n)

\* the sum of value_at * cofactor over the elements from index k on of row 0
\* (byRow) or of column 0, added in index order to acc
RECURSIVE Expansion(_, _, _, _, _)
Expansion(N, M, byRow, k, acc) ==
    IF k = N THEN acc
    ELSE IF byRow
    THEN Expansion(N, M, byRow, k + 1,
                   acc + FMul(Matrix_value_at(N, M, 0, k).value, Matrix_cofactor(N, M, 0, k)))
    ELSE Expansion(N, M, byRow, k + 1,
                   acc + FMul(Matrix_value_at(N, M, k, 0).value, Matrix_cofactor(N, M, k, 0)))

WholeMatrix(M) == \A i \in 1..Len(M) : M[i] % Unit = 0

DeterminantCalls == calls # <<>> /\ calls[1].fn = "determinant"

\* C23: determinant() is the cofactor expansion along the first column, for 3x3
\* and 4x4 matrices; it is the expansion along the first row as well where the
\* arithmetic is exact
C23_FirstColumnExpansion ==
    DeterminantCalls =>
        \E a \in {calls[1].arg} :
            /\ pc = "done"
            /\ ret.value = Expansion(a.N, a.M, FALSE, 0, 0)
            /\ WholeMatrix(a.M) => ret.value = Expansion(a.N, a.M, TRUE, 0, 0)

\* C23 as stated: determinant() is the cofactor expansion along the first row
\* for every matrix
C23_FirstRowExpansion ==
    DeterminantCalls =>
        ret.value = Expansion(calls[1].arg.N, calls[1].arg.M, TRUE, 0, 0)

\* determinant4x4: cofactors 690, 447, 210, 51 and determinant -4071
C23_Witness ==
    /\ DeterminantCalls
    /\ calls[1].arg.N = 4
    /\ <<cofactor(calls[1].arg.M, 0, 0), cofactor(calls[1].arg.M, 0, 1),
         cofactor(calls[1].arg.M, 0, 2), cofactor(calls[1].arg.M, 0, 3)>>
           = <<690 * Unit, 447 * Unit, 210 * Unit, 51 * Unit>>
    /\ ret.value = -4071 * Unit

\* a 4x4 matrix whose two expansions are rounded differently
C23_WitnessRounded ==
    /\ DeterminantCalls
    /\ calls[1].arg.N = 4
    /\ ret.value # Expansion(4, calls[1].arg.M, TRUE, 0, 0)

\* the same for a 3x3 matrix
C23_WitnessRounded3 ==
    /\ DeterminantCalls
    /\ calls[1].arg.N = 3
    /\ ret.value # Expansion(3, calls[1].arg.M, TRUE, 0, 0)

-----------------------------------------------------------------------------
(* Claims about the striped pattern *)

PatternCalls == calls # <<>> /\ calls[1].fn = "pattern_at"

IsNumber(a) == a \notin {NaN, PosInf, NegInf}

\* floor(a) is an even whole number: a lies in [2k, 2k + 1) for a whole k
FloorIsEven(a) == \E k \in -3..3 : 2 * k * Unit <= a /\ a < (2 * k + 1) * Unit

\* C24: a striped pattern gives c1 where floor(x) is even and c2 where it is odd,
\* for negative x too, whatever y and z are
C24_StripeFloorParity ==
    (PatternCalls /\ IsNumber(calls[1].arg.point.x)) =>
        \E a \in {calls[1].arg} :
            /\ pc = "done"
            /\ ret.value = (IF FloorIsEven(a.point.x) THEN a.pattern.c1 ELSE a.pattern.c2)
            /\ ret.value = Pattern_pattern_at(a.pattern, point(a.point.x, 0, 0))

\* stripe_pattern_alternates_x: x = -0.1 at y = 1, z = 2 gives the second colour
C24_Witness ==
    /\ PatternCalls
    /\ calls[1].arg.pattern = Pattern_new_striped(WHITE, BLACK)
    /\ calls[1].arg.point = point(-1, Unit, 2 * Unit)
    /\ ret.value = BLACK

\* x = -1 gives the second colour
C24_WitnessMinusOne ==
    /\ PatternCalls
    /\ calls[1].arg.pattern = Pattern_new_striped(WHITE, BLACK)
    /\ calls[1].arg.point.x = -Unit
    /\ ret.value = BLACK

\* x = -1.1 gives the first colour
C24_WitnessFirst ==
    /\ PatternCalls
    /\ calls[1].arg.pattern = Pattern_new_striped(WHITE, BLACK)
    /\ calls[1].arg.point.x = -11
    /\ ret.value = WHITE

\* an x that is no number gives the first colour
C24_WitnessNaN ==
    /\ PatternCalls
    /\ ~IsNumber(calls[1].arg.point.x)
    /\ ret.value = calls[1].arg.pattern.c1

-----------------------------------------------------------------------------
(* Claims about the canvas *)

WriteInRange ==
    /\ calls # <<>>
    /\ calls[1].fn = "write_pixel"
    /\ calls[1].arg.width < calls[1].arg.canvas.width
    /\ calls[1].arg.height < calls[1].arg.canvas.height

\* C25: after write_pixel(x, y, c) inside the canvas pixel_at(x, y) is c and
\* pixel_at of every other coordinate inside the canvas is what it was before
C25_WriteChangesOnePixel ==
    WriteInRange =>
        \E a \in {calls[1].arg} :
            /\ pc = "idle"
            /\ image.width = a.canvas.width
            /\ image.height = a.canvas.height
            /\ Len(image.pixels) = Len(a.canvas.pixels)
            /\ pixel_at(image, a.width, a.height) = Some(a.colour)
            /\ \A x \in 0..(image.width - 1), y \in 0..(image.height - 1) :
                   <<x, y>> # <<a.width, a.height>> =>
                       pixel_at(image, x, y) = pixel_at(a.canvas, x, y)

\* a 2 x 1 canvas whose other pixel was written before: the second write
\* changes pixel (1, 0) and leaves (0, 0) red
C25_Witness ==
    /\ WriteInRange
    /\ image.width = 2
    /\ image.height = 1
    /\ calls[1].arg.canvas.pixels = <<RED, BLUE>>
    /\ <<calls[1].arg.width, calls[1].arg.height>> = <<1, 0>>
    /\ image.pixels = <<RED, RED>>

\* a 1 x 2 canvas: the write to (0, 1) changes the second pixel
C25_WitnessColumn ==
    /\ WriteInRange
    /\ image.width = 1
    /\ image.height = 2
    /\ <<calls[1].arg.width, calls[1].arg.height>> = <<0, 1>>
    /\ image.pixels = <<BLUE, RED>>

-----------------------------------------------------------------------------
(* Claims about Canvas::to_ppm *)

\* no line of text is longer than max: every max + 1 characters in a row hold a line break
NoLineLonger(text, max) ==
    \A i \in 1..(Len(text) - max) : \E j \in i..(i + max) : text[j] = "\n"

\* text has n characters in a row without a line break
HasLine(text, n) ==
    \E i \in 1..(Len(text) - n + 1) : \A j \in i..(i + n - 1) : text[j] # "\n"

PpmHeader(canvas) ==
    <<"P", "3", "\n">> \o to_string(canvas.width) \o <<" ">> \o to_string(canvas.height)
        \o <<"\n", "2", "5", "5", "\n">>

StartsWith(text, prefix) ==
    Len(text) >= Len(prefix) /\ SubSeq(text, 1, Len(prefix)) = prefix

\* C26: no line of to_ppm() is longer than 70 characters, the text starts with
\* P3, "<width> <height>" and 255, the last sample of every row of the canvas
\* is followed by a line break, and the text ends with a line break
C26_PpmLines ==
    /\ pc = "running" =>
           /\ NoLineLonger(walk.str \o walk.new_line, MAX_LENGTH)
           /\ StartsWith(walk.str, PpmHeader(image))
           /\ walk.str[Len(walk.str)] = "\n"
           /\ (walk.i = 0 /\ image.width > 0 /\ (walk.k - 1) % image.width = 0) =>
                  walk.new_line = <<>>
    /\ pc = "done" =>
           /\ ret.value = walk.str
           /\ walk.new_line = <<>>
           /\ NoLineLonger(ret.value, MAX_LENGTH)
           /\ StartsWith(ret.value, PpmHeader(image))
           /\ ret.value[Len(ret.value)] = "\n"

\* ppm_linebreak: rows of 6 pixels of (1.0, 0.8, 0.6) are broken after 67 characters
C26_Witness ==
    /\ pc = "done"
    /\ image = Canvas_new(6, 2, Colour(Unit, 8, 6))
    /\ HasLine(ret.value, 67)
    /\ NoLineLonger(ret.value, 67)
    /\ Len(ret.value) = Len(PpmHeader(image)) + 36 * 4

\* a canvas without pixels: the text is the header
C26_WitnessEmpty ==
    /\ pc = "done"
    /\ image.width = 0
    /\ image.height = 2
    /\ ret.value = <<"P", "3", "\n", "0", " ", "2", "\n", "2", "5", "5", "\n">>

\* constructing_pixels: 0.5 is written as 128, 1.5 as 255, -0.5 as 0
C26_WitnessRound ==
    /\ pc = "done"
    /\ image = Canvas_new(1, 1, Colour(0, 5, 0))
    /\ ret.value = PpmHeader(image) \o <<"0", " ", "1", "2", "8", " ", "0", "\n">>

-----------------------------------------------------------------------------
(* Claims about the depth counter *)

Casters == {i \in 1..Len(calls) : calls[i].fn \in {"reflected_colour", "refracted_colour"}}

\* C27: reflected_colour and refracted_colour never take 1 off a depth of 0: at
\* depth 0 they call nothing and return black, the colour_at they call at another
\* depth gets that depth less 1, and every depth of a run is a usize no greater
\* than the depth the run began with
C27_DepthNeverUnderflows ==
    pc \in {"running", "done"} =>
        /\ \A i \in 1..Len(calls) : calls[i].depth \in 0..calls[1].depth
        /\ \A i \in Casters :
               /\ calls[i].depth = 0 =>
                      /\ \A j \in 1..Len(calls) : calls[j].parent # i
                      /\ calls[i].result.some => calls[i].result.value = BLACK
               /\ \A j \in 1..Len(calls) :
                      calls[j].parent = i =>
                          /\ calls[j].fn = "colour_at"
                          /\ calls[i].depth >= 1
                          /\ calls[j].depth + 1 = calls[i].depth

\* a run that began above depth 0 reaches refracted_colour at depth 0 on a
\* transparent object whose ray would be refracted: the depth alone stops it
C27_Witness ==
    /\ pc = "done"
    /\ calls[1].depth >= 1
    /\ \E i \in Casters :
           /\ calls[i].fn = "refracted_colour"
           /\ calls[i].depth = 0
           /\ calls[i].parent # 0
           /\ calls[i].arg.object.material.transparency # 0
           /\ ~FGt(Sin2T(calls[i].arg), Unit)
           /\ calls[i].result = Some(BLACK)

\* the same for reflected_colour on a reflective object
C27_WitnessReflected ==
    /\ pc = "done"
    /\ calls[1].depth >= 1
    /\ \E i \in Casters :
           /\ calls[i].fn = "reflected_colour"
           /\ calls[i].depth = 0
           /\ calls[i].parent # 0
           /\ calls[i].arg.object.material.reflective # 0
           /\ calls[i].result = Some(BLACK)

\* a call at depth 0 from outside
C27_WitnessInitialZero ==
    /\ pc = "done"
    /\ Len(calls) = 1
    /\ calls[1].fn = "refracted_colour"
    /\ calls[1].depth = 0
    /\ calls[1].arg.object.material.transparency # 0

-----------------------------------------------------------------------------
(* Claims about intersections of equal t *)

\* an intersection of another object with the t of inters[k] stands before it
TiedBefore(inters, k) ==
    \E j \in 1..(k - 1) : inters[j].t = inters[k].t /\ ~ObjectEq(inters[j].object, inters[k].object)

\* C28 as stated: when an intersection of another object with the same t stands
\* before the hit in the list, the loop of prepare_computations still stops at the
\* place of the hit and n1, n2 are those of the containers there
C28_TiedHitOwnPosition ==
    (pc = "comps" /\ TiedBefore(xs.inters, walk.k)) =>
        /\ walk.stop = walk.k
        /\ comps.n1 = LastIndex(ContainersAfter(xs.inters, walk.k - 1))
        /\ comps.n2 = LastIndex(ContainersAfter(xs.inters, walk.k))

-----------------------------------------------------------------------------
(* Claims about a world without lights *)

ColourAtNoLights == calls # <<>> /\ calls[1].fn = "colour_at" /\ world.lights = <<>>

\* C29: in a world without lights colour_at returns black for a ray without a
\* positive hit; for a ray with one it calls shade_hit, which stops on the
\* out-of-bounds self.lights[0] before it calls anything else, and colour_at
\* never returns
C29_NoLightsBlackOrPanic ==
    ColourAtNoLights =>
        IF Intersections_hit(World_intersect(world, calls[1].arg)).some
        THEN /\ pc \in {"running", "panic"}
             /\ Len(calls) <= 2
             /\ \A i \in 1..Len(calls) : ~calls[i].result.some
             /\ Len(calls) = 2 =>
                    /\ calls[2].fn = "shade_hit"
                    /\ Len(stack) = 2
                    /\ Top.at = "start"
             /\ pc = "panic" => Len(calls) = 2
        ELSE /\ pc \in {"running", "done"}
             /\ Len(calls) = 1
             /\ pc = "done" => calls[1].result = Some(BLACK)

\* the panic in shade_hit under a colour_at at depth 0
C29_Witness ==
    /\ ColourAtNoLights
    /\ pc = "panic"
    /\ calls[1].depth = 0
    /\ calls[2].fn = "shade_hit"

\* black for a ray whose intersections all lie behind its origin
C29_WitnessBehind ==
    /\ ColourAtNoLights
    /\ pc = "done"
    /\ World_intersect(world, calls[1].arg).inters # <<>>
    /\ calls[1].result = Some(BLACK)

\* black for a ray that meets nothing
C29_WitnessMiss ==
    /\ ColourAtNoLights
    /\ pc = "done"
    /\ World_intersect(world, calls[1].arg).inters = <<>>
    /\ calls[1].result = Some(BLACK)

-----------------------------------------------------------------------------
(* Claims about the order of intersections of equal t *)

WithT(inters, t) == SelectSeq(inters, LAMBDA x : x.t = t)

\* C30: World::intersect keeps the intersections of equal t in the order in which
\* the loop over world.objects collected them, which is the order of
\* world.objects, and hit() returns the first of those with the lowest positive
\* t, the intersection of the object that comes first in world.objects
C30_TiesInObjectOrder ==
    pc \in {"xs", "hit"} =>
        /\ \A i \in 1..Len(vec) : WithT(xs.inters, vec[i].t) = WithT(vec, vec[i].t)
        /\ \A i, j \in 1..Len(xs.inters) :
               (i < j /\ xs.inters[i].t = xs.inters[j].t) => xs.inters[i].src <= xs.inters[j].src
        /\ (pc = "hit" /\ hit.some) =>
               /\ hit.value = WithT(vec, hit.value.t)[1]
               /\ \A j \in 1..Len(xs.inters) :
                      xs.inters[j].t = hit.value.t => hit.value.src <= xs.inters[j].src
               /\ hit.value.object = world.objects[hit.value.src]

\* the sphere comes first in world.objects and shares the lowest positive t with
\* the plane: the hit is on the sphere
C30_Witness ==
    /\ pc = "hit"
    /\ hit.some
    /\ world.objects[1].shape = "Sphere"
    /\ \E j \in 1..Len(xs.inters) :
           /\ xs.inters[j].t = hit.value.t
           /\ xs.inters[j].object.shape = "Plane"
    /\ hit.value.object.shape = "Sphere"
    /\ hit.value.src = 1

\* the plane comes first: the hit is on the plane
C30_WitnessPlaneFirst ==
    /\ pc = "hit"
    /\ hit.some
    /\ world.objects[1].shape = "Plane"
    /\ \E j \in 1..Len(xs.inters) :
           /\ xs.inters[j].t = hit.value.t
           /\ xs.inters[j].object.shape = "Sphere"
    /\ hit.value.object.shape = "Plane"
    /\ hit.value.src = 1

====
